---- MODULE Spec2Model ----
(***************************************************************************)
(* Model of the two numerical cores of torchQC:                            *)
(*   segmentation/metrics/distance_metrics.py  (_get_border and the        *)
(*       DistanceMetric class), and                                        *)
(*   script/test_motion_1D.py                  (corrupt_data).             *)
(*                                                                         *)
(* Number representations.                                                 *)
(*  - A voxel is a triple <<i, j, k>> of 0-based indices; a volume is a    *)
(*    function from the voxels of its shape to integer intensities.        *)
(*  - A threshold cut is kept doubled (cut2 = 2 * cut), so that the        *)
(*    default cut 0.5 is the integer 1 and  volume > cut  is               *)
(*    2 * volume[v] > cut2.                                                *)
(*  - Every distance the metric handles is the square root of an integer   *)
(*    (clipped at radius = sqrt(radius^2)); a distance is kept as that     *)
(*    integer, its square.  sqrt is strictly increasing, so ==, >, min and *)
(*    unique() act on the squares as they act on the distances.            *)
(*  - A sum of distances is kept exactly as a surd: sqrt(a*a*b) = a*sqrt(b)*)
(*    with b squarefree, so a value is  (SUM_b num[b] * sqrt(b)) / den.    *)
(***************************************************************************)
EXTENDS Integers, Naturals, Sequences, FiniteSets, TLC

VARIABLES pc,    \* position of the caller: which operation has returned
          args,  \* the arguments of the calls (the caller's arrays and scalars)
          self,  \* the DistanceMetric instance (its fields), once constructed
          ret    \* the value the last operation returned

vars == <<pc, args, self, ret>>

(***************************************************************************)
(* Bounds of the model.                                                    *)
(***************************************************************************)
\* largest radius a DistanceMetric is constructed with on the test volumes
MaxRadius == 2
\* largest number of nonzero voxels over the two volumes of one call
MaxVoxels == 3

\* def __init__(self, cut=0.5, radius=5)
DefaultRadius == 5
\* def _get_border(volume, cut=0.5, dim=3): the default cut, doubled
DefaultCut2 == 1

Max(a, b) == IF a >= b THEN a ELSE b
Min(a, b) == IF a <= b THEN a ELSE b
SetMin(S) == CHOOSE m \in S : \A n \in S : m <= n

(***************************************************************************)
(* Volumes.                                                                *)
(***************************************************************************)
Grid(shape) == (0 .. shape[1] - 1) \X (0 .. shape[2] - 1) \X (0 .. shape[3] - 1)

InGrid(shape, v) == \A a \in 1..3 : v[a] >= 0 /\ v[a] < shape[a]

\* v moved by delta along axis a (1..3)
Step(v, a, delta) == [v EXCEPT ![a] = v[a] + delta]

\* row-major (C order) comparison of voxels, the order of Tensor.nonzero()
VoxelLess(u, v) ==
    \/ u[1] < v[1]
    \/ u[1] = v[1] /\ u[2] < v[2]
    \/ u[1] = v[1] /\ u[2] = v[2] /\ u[3] < v[3]

RECURSIVE SortVoxels(_)
SortVoxels(S) ==
    IF S = {} THEN <<>>
    ELSE LET m == CHOOSE u \in S : \A w \in S \ {u} : VoxelLess(u, w)
         IN  <<m>> \o SortVoxels(S \ {m})

\* the voxels where a volume is nonzero
Support(vol) == {v \in DOMAIN vol : vol[v] /= 0}

\* volume > cut, as a 0/1 volume
Threshold(vol, cut2) == [v \in DOMAIN vol |-> IF 2 * vol[v] > cut2 THEN 1 ELSE 0]

\* the shape of a volume, read off its index set
ShapeOf(vol) ==
    <<Cardinality({v[1] : v \in DOMAIN vol}),
      Cardinality({v[2] : v \in DOMAIN vol}),
      Cardinality({v[3] : v \in DOMAIN vol})>>

(***************************************************************************)
(* _get_border(volume, cut, dim=3)                                         *)
(***************************************************************************)
\* mutant of concat: the volume is padded with its own edge values
concat_replicate(ref, a, delta, v) ==
    LET n == Step(v, a, delta)
    IN  IF n \in DOMAIN ref THEN ref[n] ELSE ref[v]

\* The value at voxel v of
\*   torch.cat([ref, zeros], dim=a)[slices]   (delta = 1: the next voxel along a)
\*   torch.cat([zeros, ref], dim=a)[slices]   (delta = -1: the previous voxel),
\* which is the zero slab where the neighbour falls outside the volume.
concat(ref, a, delta, v) ==
    LET n == Step(v, a, delta)
    IN  IF n \in DOMAIN ref THEN ref[n] ELSE 0

\* mutant of get_border: a difference of -1 marks the voxel too
get_border_abs(volume, cut2) ==
    LET ref == Threshold(volume, cut2)
    IN  [v \in DOMAIN volume |->
            IF \E a \in 1..3 : \E delta \in {1, -1} :
                   ref[v] - concat(ref, a, delta, v) \in {1, -1}
            THEN 1 ELSE 0]

\* mutant of get_border: only the shift towards the next voxel is looked at
get_border_forward(volume, cut2) ==
    LET ref == Threshold(volume, cut2)
    IN  [v \in DOMAIN volume |->
            IF \E a \in 1..3 : ref[v] - concat(ref, a, 1, v) = 1
            THEN 1 ELSE 0]

\* border[(ref - concat) == 1] = 1, for both shifts of every axis
get_border(volume, cut2) ==
    LET ref == Threshold(volume, cut2)
    IN  [v \in DOMAIN volume |->
            IF \E a \in 1..3 : \E delta \in {1, -1} :
                   ref[v] - concat(ref, a, delta, v) = 1
            THEN 1 ELSE 0]

(***************************************************************************)
(* class DistanceMetric                                                    *)
(***************************************************************************)
\* the offsets of the (2 * radius + 1)^3 neighbourhood (torch.meshgrid of
\* torch.arange(-radius, radius + 1))
Offsets(radius) == (-radius .. radius) \X (-radius .. radius) \X (-radius .. radius)

NormSq(o) == o[1] * o[1] + o[2] * o[2] + o[3] * o[3]

\* mutant of distance_map_at: the norm is not clipped at radius
distance_map_at_unclipped(radius, o) == NormSq(o)

\* one entry of _get_distance_map: the Euclidean norm of the offset, set to
\* radius where it exceeds radius (as a square)
distance_map_at(radius, o) ==
    IF NormSq(o) > radius * radius THEN radius * radius ELSE NormSq(o)

get_distance_map(radius) == [o \in Offsets(radius) |-> distance_map_at(radius, o)]

RECURSIVE SortInts(_)
SortInts(S) ==
    IF S = {} THEN <<>>
    ELSE LET m == SetMin(S) IN <<m>> \o SortInts(S \ {m})

\* Tensor.unique(): the distinct values, ascending
unique(radius) == SortInts({distance_map_at(radius, o) : o \in Offsets(radius)})

\* __init__: the fields of the new instance, or the exception raised.
\* torch.arange(-radius, radius + 1) raises for radius < 0 (its bounds contradict
\* its step); nothing else in __init__ looks at radius.
DistanceMetric(cut2, radius) ==
    IF radius < 0
    THEN [raised |-> "RuntimeError"]
    ELSE [raised    |-> "none",
          cut       |-> cut2,
          radius    |-> radius,
          dim       |-> 3,
          d_max     |-> radius * radius,
          distances |-> unique(radius)]

\* distance_kernels[idx] at offset o (idx counts from 1):
\*   kernel = self.distance_map == self.distances[idx]
kernel_at(obj, idx, o) ==
    IF distance_map_at(obj.radius, o) = obj.distances[idx] THEN 1 ELSE 0

get_distance_kernels(obj) ==
    [idx \in 1 .. Len(obj.distances) |->
        [o \in Offsets(obj.radius) |-> kernel_at(obj, idx, o)]]

\* mutant of ChannelKernels: single_kernel sums every kernel (kernels[:])
ChannelKernels_all(obj, single_kernel) ==
    IF single_kernel
    THEN <<1 .. Len(obj.distances)>>
    ELSE [c \in 1 .. Len(obj.distances) |-> {c}]

\* The kernels one output channel of the convolution adds up: with
\* single_kernel, kernels[:-1].sum(dim=0, keepdim=True) is the one channel;
\* otherwise channel c is kernel c alone.
ChannelKernels(obj, single_kernel) ==
    IF single_kernel
    THEN <<1 .. Len(obj.distances) - 1>>
    ELSE [c \in 1 .. Len(obj.distances) |-> {c}]

\* torch.conv3d(y, kernels, padding=radius)[0] at channel group K and voxel p:
\* the sum over the neighbourhood of kernel[o] * y[p + o], taken over the
\* voxels of the volume (the padding is zero).  y is a 0/1 volume, so the sum
\* counts the pairs (voxel, kernel) that contribute 1.
conv3d_at(obj, y, K, p) ==
    Cardinality({qi \in Support(y) \X K :
        LET o == <<qi[1][1] - p[1], qi[1][2] - p[2], qi[1][3] - p[3]>>
        IN  /\ \A a \in 1..3 : o[a] >= -obj.radius /\ o[a] <= obj.radius
            /\ kernel_at(obj, qi[2], o) = 1})

\* mutant of pairwise_distances: the table starts from zeros instead of d_max
pairwise_distances_zeros(obj, x, y, single_kernel) ==
    LET kernels == ChannelKernels(obj, single_kernel)
        rowsOf  == SortVoxels(Support(x))
    IN  [r \in 1 .. Len(rowsOf) |->
            [c \in 1 .. Len(kernels) |->
                IF conv3d_at(obj, y, kernels[c], rowsOf[r]) /= 0
                THEN obj.distances[c]
                ELSE 0]]

\* _pairwise_distances(x, y, single_kernel): one row per nonzero voxel of x
\* (row-major order), one column per output channel; a column holds
\* distances[column] where the convolution is nonzero and d_max elsewhere.
pairwise_distances(obj, x, y, single_kernel) ==
    LET kernels == ChannelKernels(obj, single_kernel)
        rowsOf  == SortVoxels(Support(x))
    IN  [r \in 1 .. Len(rowsOf) |->
            [c \in 1 .. Len(kernels) |->
                IF conv3d_at(obj, y, kernels[c], rowsOf[r]) /= 0
                THEN obj.distances[c]
                ELSE obj.d_max]]

\* Tensor.min(dim=1): the least entry of every row
min_dim1(rows) == [r \in 1 .. Len(rows) |-> SetMin({rows[r][c] : c \in 1 .. Len(rows[r])})]

(***************************************************************************)
(* Exact values: (SUM over squarefree b of num[b] * sqrt(b)) / den.        *)
(***************************************************************************)
\* the largest square whose root the model takes
MaxSq == Max(DefaultRadius, MaxRadius) * Max(DefaultRadius, MaxRadius)

IsSquareFree(b) == \A a \in 2 .. b : b % (a * a) /= 0

Radicands == {b \in 1 .. MaxSq : IsSquareFree(b)}

\* the a with k = a * a * b, b squarefree
SquarePart(k) == CHOOSE a \in 1 .. k : k % (a * a) = 0 /\ IsSquareFree(k \div (a * a))

Zero == [kind |-> "num", num |-> [b \in Radicands |-> 0], den |-> 1]

NaN == [kind |-> "nan", num |-> [b \in Radicands |-> 0], den |-> 1]

Int2Num(n) == [kind |-> "num", num |-> [b \in Radicands |-> IF b = 1 THEN n ELSE 0], den |-> 1]

\* sqrt(k) for an integer k >= 0
Sqrt(k) ==
    IF k = 0 THEN Zero
    ELSE LET a == SquarePart(k)
         IN  [kind |-> "num",
              num  |-> [b \in Radicands |-> IF b = k \div (a * a) THEN a ELSE 0],
              den  |-> 1]

\* u + v; NaN if either is
Add(u, v) ==
    IF u.kind = "nan" \/ v.kind = "nan" THEN NaN
    ELSE [kind |-> "num",
          num  |-> [b \in Radicands |-> u.num[b] * v.den + v.num[b] * u.den],
          den  |-> u.den * v.den]

\* u / n for an integer n > 0
DivInt(u, n) == IF u.kind = "nan" THEN NaN ELSE [u EXCEPT !.den = u.den * n]

\* equality of values (never true of NaN)
NumEq(u, v) ==
    /\ u.kind = "num" /\ v.kind = "num"
    /\ \A b \in Radicands : u.num[b] * v.den = v.num[b] * u.den

\* the sum of the square roots of the entries of a sequence of squares
RECURSIVE SumSqrt(_)
SumSqrt(sq) == IF sq = <<>> THEN Zero ELSE Add(Sqrt(Head(sq)), SumSqrt(Tail(sq)))

\* Tensor.sum() of a 0/1 volume
VolSum(vol) == Cardinality(Support(vol))

\* mutant of ClearOverlap: the overlap is left in the mask
ClearOverlap_kept(mask, prediction, target) == mask

\* mask[prediction * target] = 0 on a clone of mask
ClearOverlap(mask, prediction, target) ==
    [v \in DOMAIN mask |-> IF prediction[v] * target[v] /= 0 THEN 0 ELSE mask[v]]

\* mutant of first_term: the sum is divided by prediction_mask.sum()
first_term_over_mask(obj, prediction, target) ==
    LET prediction_mask == ClearOverlap(prediction, prediction, target)
        target_mask     == get_border(target, DefaultCut2)
    IN  IF VolSum(prediction_mask) /= 0
        THEN LET min_dist == min_dim1(pairwise_distances(obj, prediction_mask, target_mask, FALSE))
             IN  DivInt(SumSqrt(min_dist), VolSum(prediction_mask))
        ELSE Zero

\* first_term of average_hausdorff_distance, on the thresholded volumes
first_term(obj, prediction, target) ==
    LET prediction_mask == ClearOverlap(prediction, prediction, target)
        target_mask     == get_border(target, DefaultCut2)
    IN  IF VolSum(prediction_mask) /= 0
        THEN LET min_dist == min_dim1(pairwise_distances(obj, prediction_mask, target_mask, FALSE))
             IN  DivInt(SumSqrt(min_dist), VolSum(prediction))
        ELSE Zero

\* second_term of average_hausdorff_distance, on the thresholded volumes
second_term(obj, prediction, target) ==
    LET prediction_mask == get_border(prediction, DefaultCut2)
        target_mask     == ClearOverlap(target, prediction, target)
    IN  IF VolSum(target_mask) /= 0
        THEN LET min_dist == min_dim1(pairwise_distances(obj, target_mask, prediction_mask, FALSE))
             IN  DivInt(SumSqrt(min_dist), VolSum(target))
        ELSE Zero

\* mutant of average_hausdorff_distance: the mean of the two terms
average_hausdorff_distance_mean(obj, prediction, target) ==
    LET p == Threshold(prediction, obj.cut)
        t == Threshold(target, obj.cut)
    IN  DivInt(Add(first_term(obj, p, t), second_term(obj, p, t)), 2)

\* average_hausdorff_distance(prediction, target)
average_hausdorff_distance(obj, prediction, target) ==
    LET p == Threshold(prediction, obj.cut)
        t == Threshold(target, obj.cut)
    IN  Add(first_term(obj, p, t), second_term(obj, p, t))

\* amount_of_far_points(prediction, target)
amount_of_far_points(obj, prediction, target) ==
    LET p == Threshold(prediction, obj.cut)
        t == Threshold(target, obj.cut)
        prediction_mask == ClearOverlap(p, p, t)
        target_mask     == get_border(t, DefaultCut2)
    IN  IF VolSum(prediction_mask) /= 0
        THEN LET min_dist == min_dim1(pairwise_distances(obj, prediction_mask, target_mask, TRUE))
             IN  Cardinality({r \in 1 .. Len(min_dist) : min_dist[r] >= obj.radius * obj.radius})
        ELSE 0

(***************************************************************************)
(* DistanceMetric.surface_distances(x, y)  (static, numpy and scipy)       *)
(***************************************************************************)
DistSq(u, v) == NormSq(<<u[1] - v[1], u[2] - v[2], u[3] - v[3]>>)

\* scipy's distance_transform_edt: at a nonzero voxel the distance to the
\* nearest zero voxel, 0 at a zero voxel (as a square).  On a volume without
\* a zero voxel (a case scipy does not document) its feature transform is
\* left as it was initialised, -1 along the first axis and 0 along the
\* others, and every voxel gets its distance to <<-1, 0, 0>>.
distance_transform_edt(vol) ==
    LET zeros == {q \in DOMAIN vol : vol[q] = 0}
    IN  [v \in DOMAIN vol |->
            IF vol[v] = 0 THEN 0
            ELSE IF zeros /= {} THEN SetMin({DistSq(v, q) : q \in zeros})
            ELSE DistSq(v, <<-1, 0, 0>>)]

\* np.logical_not of a 0/1 volume
logical_not(vol) == [v \in DOMAIN vol |-> IF vol[v] = 0 THEN 1 ELSE 0]

\* (x_dist_int == 1) * 1
edge_of(x) ==
    LET x_dist_int == distance_transform_edt(x)
    IN  [v \in DOMAIN x |-> IF x_dist_int[v] = 1 THEN 1 ELSE 0]

\* np.mean(dist[edge == 1]); the mean of no values is nan
mean_at(dist, edge) ==
    LET at == SortVoxels(Support(edge))
    IN  IF at = <<>> THEN NaN
        ELSE DivInt(SumSqrt([i \in 1 .. Len(at) |-> dist[at[i]]]), Len(at))

Raised(exc) == [kind |-> exc, num |-> [b \in Radicands |-> 0], den |-> 1]

surface_distances(x, y) ==
    IF DOMAIN x /= DOMAIN y THEN Raised("AssertionError")
    ELSE LET x_edge == edge_of(x)
             y_edge == edge_of(y)
             x_dist == distance_transform_edt(logical_not(x_edge))
             y_dist == distance_transform_edt(logical_not(y_edge))
             x_mean_dist_to_y == mean_at(y_dist, x_edge)
             y_mean_dist_to_x == mean_at(x_dist, y_edge)
         IN  DivInt(Add(x_mean_dist_to_y, y_mean_dist_to_x), 2)

(***************************************************************************)
(* The volumes the calls are made on.                                      *)
(***************************************************************************)
BoxShape  == <<2, 2, 2>>
LineShape == <<4, 1, 1>>
CubeShape == <<3, 3, 3>>

Mask(shape, S) == [v \in Grid(shape) |-> IF v \in S THEN 1 ELSE 0]

\* the subsets of S of at most n elements
RECURSIVE SetsUpTo(_, _)
SetsUpTo(S, n) ==
    IF n <= 0 THEN {{}}
    ELSE LET smaller == SetsUpTo(S, n - 1)
         IN  smaller \cup {A \cup {x} : A \in smaller, x \in S}

SparseSets(shape, n) == SetsUpTo(Grid(shape), n)

\* the pairs of 0/1 volumes of one shape with at most MaxVoxels nonzero voxels
\* between them
SparsePairs(shape) ==
    UNION {{<<Mask(shape, P), Mask(shape, T)>> :
                T \in SparseSets(shape, MaxVoxels - Cardinality(P))} :
           P \in SparseSets(shape, MaxVoxels)}

\* dense volumes: the full cube, and the cube without its centre, without a
\* corner, without the centre of a face (the only volumes here with a
\* foreground voxel that is not on the border)
DenseVolumes ==
    {Mask(CubeShape, Grid(CubeShape) \ H) :
        H \in {{}, {<<1, 1, 1>>}, {<<0, 0, 0>>}, {<<1, 1, 0>>}}}

DensePairs == DenseVolumes \X DenseVolumes

VolumePairs == SparsePairs(BoxShape) \cup SparsePairs(LineShape) \cup DensePairs

\* a DistanceMetric of the default radius is exercised on the line volumes,
\* the others on all of them
PairsFor(radius) ==
    IF radius > MaxRadius THEN SparsePairs(LineShape) ELSE VolumePairs

Radii == (-1 .. MaxRadius) \cup {DefaultRadius}

Cuts2 == {DefaultCut2}

NoValue == [kind |-> "none"]

(***************************************************************************)
(* The DistanceMetric state machine: construct, then call.                 *)
(***************************************************************************)
MetricInit ==
    /\ pc = "start"
    /\ args = NoValue
    /\ self = NoValue
    /\ ret = NoValue

Construct ==
    /\ pc = "start"
    /\ \E cut2 \in Cuts2, radius \in Radii :
          /\ args' = [kind |-> "init", cut |-> cut2, radius |-> radius]
          /\ self' = DistanceMetric(cut2, radius)
          /\ pc' = IF DistanceMetric(cut2, radius).raised = "none"
                   THEN "constructed" ELSE "failed"
    /\ ret' = NoValue

CallPairwiseDistances ==
    /\ pc = "constructed"
    /\ \E xy \in PairsFor(self.radius), single_kernel \in {FALSE} :
          /\ args' = [kind |-> "pairwise", x |-> xy[1], y |-> xy[2],
                      single_kernel |-> single_kernel]
          /\ ret' = pairwise_distances(self, xy[1], xy[2], single_kernel)
    /\ pc' = "pairwise_distances"
    /\ UNCHANGED self

CallAverageHausdorffDistance ==
    /\ pc = "constructed"
    /\ \E pt \in PairsFor(self.radius) :
          /\ args' = [kind |-> "metric", prediction |-> pt[1], target |-> pt[2]]
          /\ ret' = average_hausdorff_distance(self, pt[1], pt[2])
    /\ pc' = "average_hausdorff_distance"
    /\ UNCHANGED self

CallAmountOfFarPoints ==
    /\ pc = "constructed"
    /\ \E pt \in PairsFor(self.radius) :
          /\ args' = [kind |-> "metric", prediction |-> pt[1], target |-> pt[2]]
          /\ ret' = amount_of_far_points(self, pt[1], pt[2])
    /\ pc' = "amount_of_far_points"
    /\ UNCHANGED self

CallSurfaceDistances ==
    /\ pc = "start"
    /\ \E xy \in VolumePairs :
          /\ args' = [kind |-> "surface", x |-> xy[1], y |-> xy[2]]
          /\ ret' = surface_distances(xy[1], xy[2])
    /\ pc' = "surface_distances"
    /\ UNCHANGED self

MetricNext ==
    \/ Construct
    \/ CallPairwiseDistances
    \/ CallAverageHausdorffDistance
    \/ CallAmountOfFarPoints
    \/ CallSurfaceDistances

SpecMetric == MetricInit /\ [][MetricNext]_vars

(***************************************************************************)
(* Properties of the DistanceMetric calls (checked under SpecMetric).      *)
(***************************************************************************)
\* min(radius, Euclidean distance from s to the nearest voxel of the set Y),
\* as a square; radius when Y is empty
ClippedNearestSq(radius, s, Y) ==
    IF Y = {} THEN radius * radius
    ELSE Min(radius * radius, SetMin({DistSq(s, q) : q \in Y}))

\* the sum over the voxels of S of their clipped nearest distance to Y, over n
MeanNearest(radius, S, Y, n) ==
    IF S = {} THEN Zero
    ELSE LET at == SortVoxels(S)
         IN  DivInt(SumSqrt([i \in 1 .. Len(at) |-> ClippedNearestSq(radius, at[i], Y)]), n)

\* the thresholded volumes of a metric call
ArgP == Threshold(args.prediction, self.cut)
ArgT == Threshold(args.target, self.cut)
PredictionOnly == Support(ArgP) \ Support(ArgT)
TargetOnly == Support(ArgT) \ Support(ArgP)

\* C1: for binary masks x, y and a radius >= 1, the least entry of every row
\* of _pairwise_distances(x, y) (one row per nonzero voxel s of x) is
\* min(radius, distance from s to the nearest nonzero voxel of y); it is
\* radius when y is empty or has no voxel within radius of s.
C1_RowMinIsClippedNearest ==
    (pc = "pairwise_distances" /\ ~args.single_kernel /\ self.radius >= 1) =>
        LET s == SortVoxels(Support(args.x))
            Y == Support(args.y)
            row_min == min_dim1(ret)
        IN  /\ Len(ret) = Len(s)
            /\ \A r \in 1 .. Len(s) :
                  /\ row_min[r] = ClippedNearestSq(self.radius, s[r], Y)
                  /\ (\A q \in Y : DistSq(s[r], q) >= self.radius * self.radius)
                        => row_min[r] = self.radius * self.radius

\* a call with radius 1 where a source voxel has its nearest target voxel
\* inside the neighbourhood cube but farther than radius (at sqrt(2)), and
\* another source voxel has a target voxel on itself
C1_Witness ==
    /\ pc = "pairwise_distances" /\ ~args.single_kernel /\ self.radius = 1
    /\ Support(args.y) /= {}
    /\ LET s == SortVoxels(Support(args.x))
       IN  /\ \E r \in 1 .. Len(s) :
                /\ SetMin({DistSq(s[r], q) : q \in Support(args.y)}) = 2
                /\ min_dim1(ret)[r] = 1
           /\ \E r \in 1 .. Len(s) : min_dim1(ret)[r] = 0

\* C4 as stated: each directional term is the sum of the nearest distances
\* of the source-only voxels divided by the number of source-only voxels.
C4_TermsAreMeansOverOnlyVoxels ==
    pc = "average_hausdorff_distance" =>
        /\ NumEq(first_term(self, ArgP, ArgT),
                 MeanNearest(self.radius, PredictionOnly,
                             Support(get_border(ArgT, DefaultCut2)),
                             Cardinality(PredictionOnly)))
        /\ NumEq(second_term(self, ArgP, ArgT),
                 MeanNearest(self.radius, TargetOnly,
                             Support(get_border(ArgP, DefaultCut2)),
                             Cardinality(TargetOnly)))

\* C4, amended: the prediction-to-target term is the sum, over the
\* prediction_only voxels, of the nearest distance to boundary(target),
\* divided by the number of voxels of the whole thresholded prediction
\* (overlap included), and 0 when prediction_only is empty; symmetrically for
\* the target-to-prediction term; the result is the sum of the two.
C4_TermsAreSumsOverWholeMasks ==
    pc = "average_hausdorff_distance" =>
        LET first  == MeanNearest(self.radius, PredictionOnly,
                                  Support(get_border(ArgT, DefaultCut2)),
                                  Cardinality(Support(ArgP)))
            second == MeanNearest(self.radius, TargetOnly,
                                  Support(get_border(ArgP, DefaultCut2)),
                                  Cardinality(Support(ArgT)))
        IN  /\ NumEq(first_term(self, ArgP, ArgT), first)
            /\ NumEq(second_term(self, ArgP, ArgT), second)
            /\ NumEq(ret, Add(first, second))

\* a call whose prediction has a voxel inside the target and a voxel outside
C4_Witness ==
    /\ pc = "average_hausdorff_distance" /\ self.radius >= 1
    /\ PredictionOnly /= {}
    /\ Support(ArgP) \cap Support(ArgT) /= {}
    /\ ~NumEq(ret, Zero)

\* the offset d when P and T are single voxels that differ along exactly one
\* axis, 0 otherwise
AxisOffset(P, T) ==
    IF Cardinality(P) = 1 /\ Cardinality(T) = 1
    THEN LET u == CHOOSE v \in P : TRUE
             w == CHOOSE v \in T : TRUE
         IN  IF Cardinality({a \in 1..3 : u[a] /= w[a]}) = 1
             THEN SetMin({n \in 0 .. DistSq(u, w) : n * n = DistSq(u, w)})
             ELSE 0
    ELSE 0

\* C5: for two single-voxel masks offset by d along one axis, 1 <= d <= radius,
\* average_hausdorff_distance returns d + d (the sum of its two terms), and
\* surface_distances returns d (the mean of its two means).
C5_SumVersusMean ==
    /\ pc = "average_hausdorff_distance" =>
          LET d == AxisOffset(Support(ArgP), Support(ArgT))
          IN  (1 <= d /\ d <= self.radius) => NumEq(ret, Int2Num(d + d))
    /\ pc = "surface_distances" =>
          LET d == AxisOffset(Support(args.x), Support(args.y))
          IN  1 <= d => NumEq(ret, Int2Num(d))

\* the example: offset 3 with radius 5 returns 6
C5_Witness ==
    /\ pc = "average_hausdorff_distance" /\ self.radius = 5
    /\ AxisOffset(Support(ArgP), Support(ArgT)) = 3
    /\ NumEq(ret, Int2Num(6))

\* C6: average_hausdorff_distance(x, x) is 0 for every mask x.
C6_IdenticalMasksGiveZero ==
    (pc = "average_hausdorff_distance" /\ args.prediction = args.target)
        => NumEq(ret, Zero)

\* a call on twice the same mask, one that has a voxel off its own border
C6_Witness ==
    /\ pc = "average_hausdorff_distance" /\ self.radius >= 1
    /\ args.prediction = args.target
    /\ Support(ArgP) \ Support(get_border(ArgP, DefaultCut2)) /= {}
    /\ NumEq(ret, Zero)

\* C7: amount_of_far_points (single_kernel=True) returns the number of
\* prediction_only voxels whose nearest distance to boundary(target),
\* computed with the full kernel bank, is >= radius; 0 when there is none.
C7_FarPointsMatchFullKernelBank ==
    pc = "amount_of_far_points" =>
        LET prediction_mask == ClearOverlap(ArgP, ArgP, ArgT)
            target_mask == get_border(ArgT, DefaultCut2)
            min_dist == min_dim1(pairwise_distances(self, prediction_mask, target_mask, FALSE))
        IN  /\ PredictionOnly = {} => ret = 0
            /\ ret = Cardinality({r \in 1 .. Len(min_dist) :
                                     min_dist[r] >= self.radius * self.radius})
            /\ ret = Cardinality({v \in PredictionOnly :
                        ClippedNearestSq(self.radius, v, Support(target_mask))
                            >= self.radius * self.radius})

\* a call that counts one prediction_only voxel as far and another as near
C7_Witness ==
    /\ pc = "amount_of_far_points" /\ self.radius >= 1
    /\ ret = 1
    /\ Cardinality(PredictionOnly) = 2
    /\ Support(ArgT) /= {}

\* C8: constructing DistanceMetric with radius < 1 fails and yields no instance.
C8_RadiusBelowOneFails ==
    (pc \in {"constructed", "failed"} /\ args.radius < 1) => pc = "failed"

(***************************************************************************)
(* _get_border called on its own.                                          *)
(***************************************************************************)
\* largest number of voxels of a test volume that differ from its background
MaxFlips == 2

BorderShapes == {CubeShape, BoxShape, LineShape, <<1, 1, 1>>, <<1, 2, 3>>}

\* volumes of background intensity 0 or 2 with at most MaxFlips voxels of
\* intensity 1
BorderVolumes(shape) ==
    {[v \in Grid(shape) |-> IF v \in F THEN 1 ELSE b] :
        F \in SparseSets(shape, MaxFlips), b \in {0, 2}}

\* cut = 0.5 and cut = 1.5
BorderCuts2 == {DefaultCut2, 3}

BorderInit ==
    /\ pc = "start"
    /\ args = NoValue
    /\ self = NoValue
    /\ ret = NoValue

CallGetBorder ==
    /\ pc = "start"
    /\ \E shape \in BorderShapes :
          \E volume \in BorderVolumes(shape), cut2 \in BorderCuts2 :
             /\ args' = [kind |-> "border", volume |-> volume, cut |-> cut2]
             /\ ret' = get_border(volume, cut2)
    /\ pc' = "get_border"
    /\ UNCHANGED self

BorderNext == CallGetBorder

SpecBorder == BorderInit /\ [][BorderNext]_vars

\* the voxels on the outer faces of a volume
Faces(vol) ==
    LET shape == ShapeOf(vol)
    IN  {v \in DOMAIN vol : \E a \in 1..3 : v[a] = 0 \/ v[a] = shape[a] - 1}

\* C2 as stated: the border is empty for a volume that is all 0 and for a
\* volume that is all above the threshold.
C2_UniformVolumeHasNoBorder ==
    (pc = "get_border" /\
        (\/ \A v \in DOMAIN args.volume : args.volume[v] = 0
         \/ \A v \in DOMAIN args.volume : 2 * args.volume[v] > args.cut))
        => Support(ret) = {}

\* C2, amended: the border is empty for a volume with no voxel above the
\* threshold (an all-0 volume among them); for a volume that is all above
\* the threshold it is exactly the voxels on the outer faces of the volume
\* (the volume is compared with zeros beyond its edge).
C2_UniformVolumeBorder ==
    pc = "get_border" =>
        /\ (\A v \in DOMAIN args.volume : 2 * args.volume[v] <= args.cut)
              => Support(ret) = {}
        /\ (\A v \in DOMAIN args.volume : 2 * args.volume[v] > args.cut)
              => Support(ret) = Faces(args.volume)

\* a cube all above the threshold, of mixed intensities: its border is its
\* faces, and its centre is off the border
C2_Witness ==
    /\ pc = "get_border"
    /\ ShapeOf(args.volume) = CubeShape
    /\ \A v \in DOMAIN args.volume : 2 * args.volume[v] > args.cut
    /\ \E v \in DOMAIN args.volume : args.volume[v] = 1
    /\ Support(ret) = DOMAIN args.volume \ {<<1, 1, 1>>}

\* the axis neighbours of v that lie in the volume
Neighbours(vol, v) ==
    {n \in {Step(v, a, delta) : a \in 1..3, delta \in {1, -1}} : n \in DOMAIN vol}

\* C3 as stated: the border is 1 exactly at the voxels whose thresholded
\* value differs from that of an in-volume axis neighbour.
C3_BorderIsBothSidesOfTransitions ==
    pc = "get_border" =>
        LET ref == Threshold(args.volume, args.cut)
        IN  \A v \in DOMAIN ret :
               /\ ret[v] \in {0, 1}
               /\ ret[v] = 1 <=> \E n \in Neighbours(args.volume, v) : ref[n] /= ref[v]

\* C3, amended: the border is 1 exactly at the voxels that are above the
\* threshold and have, along some axis, a neighbour one step forward or
\* backward that is not above the threshold or lies outside the volume;
\* every other voxel is 0.
C3_BorderIsForegroundSideOfTransitions ==
    pc = "get_border" =>
        LET ref == Threshold(args.volume, args.cut)
        IN  /\ DOMAIN ret = DOMAIN args.volume
            /\ \A v \in DOMAIN ret :
                  /\ ret[v] \in {0, 1}
                  /\ ret[v] = 1 <=>
                        /\ ref[v] = 1
                        /\ \/ \E n \in Neighbours(args.volume, v) : ref[n] = 0
                           \/ Cardinality(Neighbours(args.volume, v)) < 6

\* a cube whose centre is above the threshold and on the border, with a
\* face-centre neighbour below the threshold that is not on the border
C3_Witness ==
    /\ pc = "get_border"
    /\ ShapeOf(args.volume) = CubeShape
    /\ ret[<<1, 1, 1>>] = 1
    /\ 2 * args.volume[<<1, 1, 0>>] <= args.cut
    /\ ret[<<1, 1, 0>>] = 0
    /\ ret[<<0, 0, 0>>] = 1

(***************************************************************************)
(* corrupt_data (script/test_motion_1D.py, the definition in force).       *)
(*                                                                         *)
(* A sample of a course is one of                                          *)
(*   [k |-> "rat", n, d]      the rational n / d (d > 0, lowest terms),    *)
(*   [k |-> "nan"]            NaN,                                         *)
(*   [k |-> "exp", n, d, a]   a * exp(-n / d), n / d > 0 in lowest terms,  *)
(*   [k |-> "sin", n, d]      sin(n / d * 2 * pi), n / d in lowest terms,  *)
(*   [k |-> "sub", l, r]      l - r for two different samples that are not *)
(*                            both rational.                               *)
(* The courses are short enough here that exp does not underflow.  A course *)
(* is a sequence; index i of the array is element i + 1.                   *)
(***************************************************************************)
Abs(n) == IF n < 0 THEN -n ELSE n

RECURSIVE Gcd(_, _)
Gcd(a, b) == IF b = 0 THEN a ELSE Gcd(b, a % b)

\* n / d for d /= 0
Rat(n, d) ==
    LET g  == Gcd(Abs(n), Abs(d))
        sg == IF d < 0 THEN -1 ELSE 1
    IN  [k |-> "rat", n |-> sg * (n \div g), d |-> sg * (d \div g), a |-> 0]

NaNSample == [k |-> "nan", n |-> 0, d |-> 1, a |-> 0]

IsZeroSample(v) == v.k = "rat" /\ v.n = 0

\* l - r in floating point: exact on rationals, NaN if either is, 0 for a
\* finite value minus itself
Sub(l, r) ==
    IF l.k = "nan" \/ r.k = "nan" THEN NaNSample
    ELSE IF l.k = "rat" /\ r.k = "rat" THEN Rat(l.n * r.d - r.n * l.d, l.d * r.d)
    ELSE IF l = r THEN Rat(0, 1)
    ELSE [k |-> "sub", l |-> l, r |-> r]

\* np.zeros(n), np.ones(n) * c
Const(n, c) == [i \in 1 .. n |-> Rat(c, 1)]

\* np.linspace(start, stop, num) for num >= 0
linspace(start, stop, num) ==
    [i \in 1 .. num |->
        IF num = 1 THEN Rat(start, 1)
        ELSE Rat(start * (num - 1) + (i - 1) * (stop - start), num - 1)]

\* method == 'gauss': np.exp(-(x - x0) ** 2 / float(2 * sigma ** 2)) * amplitude.
\* Dividing by 0.0 gives -inf (exp is 0) and, for 0 / 0.0, nan.
gauss(x0, sigma, amplitude, resolution) ==
    [i \in 1 .. resolution |->
        LET sq  == (i - 1 - x0) * (i - 1 - x0)
            den == 2 * sigma * sigma
        IN  IF den = 0 THEN (IF sq = 0 THEN NaNSample ELSE Rat(0, 1))
            ELSE IF sq = 0 THEN Rat(amplitude, 1)
            ELSE IF amplitude = 0 THEN Rat(0, 1)
            ELSE [k |-> "exp", n |-> sq \div Gcd(sq, den), d |-> den \div Gcd(sq, den),
                  a |-> amplitude]]

\* method == 'sin': np.sin(x / x0 * 2 * np.pi); x / 0 is nan or inf, whose
\* sine is nan
sin(x0, resolution) ==
    [i \in 1 .. resolution |->
        IF x0 = 0 THEN NaNSample
        ELSE IF i = 1 THEN Rat(0, 1)
        ELSE [k |-> "sin", n |-> Rat(i - 1, x0).n, d |-> Rat(i - 1, x0).d, a |-> 1]]

\* the slice [start:stop] of an array of length len, start >= 0: a negative
\* stop counts from the end
SliceStop(stop, len) ==
    IF stop < 0 THEN Max(0, stop + len) ELSE Min(stop, len)

\* mutant of Ustep: the pulse includes index x0 + sigma // 2
Ustep_inclusive(x0, sigma, amplitude, resolution) ==
    LET left == Max(0, x0 - (sigma \div 2))
        stop == SliceStop(x0 + (sigma \div 2) + 1, resolution)
    IN  [i \in 1 .. resolution |->
            IF left <= i - 1 /\ i - 1 < stop THEN Rat(amplitude, 1) ELSE Rat(0, 1)]

\* method == 'Ustep':
\*   left = np.max([0, x0 - (sigma // 2)]); y[left:x0 + (sigma // 2)] = 1
\*   y = y * amplitude
Ustep(x0, sigma, amplitude, resolution) ==
    LET left == Max(0, x0 - (sigma \div 2))
        stop == SliceStop(x0 + (sigma \div 2), resolution)
    IN  [i \in 1 .. resolution |->
            IF left <= i - 1 /\ i - 1 < stop THEN Rat(amplitude, 1) ELSE Rat(0, 1)]

\* if x0 < 100: the literal the sign of the step depends on
StepPivot == 100

\* method == 'step'; only for non-negative segment lengths
step(x0, sigma, amplitude, resolution) ==
    LET top == IF x0 < StepPivot THEN amplitude ELSE -amplitude
    IN  Const(x0 - sigma, 0)
          \o linspace(0, top, 2 * sigma + 1)
          \o Const((resolution - x0) - sigma - 1, top)

\* mutant of twostep: a course longer than resolution is not cut
twostep_uncut(x0, sigma, amplitude, resolution) ==
    LET y == Const(x0 - sigma[1], 0)
               \o linspace(0, amplitude[1], 2 * sigma[1] + 1)
               \o Const(sigma[2] - 1, amplitude[1])
               \o linspace(amplitude[1], amplitude[2], 2 * sigma[1] + 1)
               \o Const(sigma[3] - 1, amplitude[2])
               \o linspace(amplitude[2], 0, 2 * sigma[1] + 1)
    IN  y \o Const(resolution - Len(y), 0)

\* method == '2step', sigma and amplitude being lists; only for non-negative
\* segment lengths.  The course is cut or zero-padded to resolution samples.
twostep(x0, sigma, amplitude, resolution) ==
    LET y == Const(x0 - sigma[1], 0)
               \o linspace(0, amplitude[1], 2 * sigma[1] + 1)
               \o Const(sigma[2] - 1, amplitude[1])
               \o linspace(amplitude[1], amplitude[2], 2 * sigma[1] + 1)
               \o Const(sigma[3] - 1, amplitude[2])
               \o linspace(amplitude[2], 0, 2 * sigma[1] + 1)
        remain == resolution - Len(y)
    IN  IF remain < 0 THEN SubSeq(y, 1, Len(y) + remain)
        ELSE y \o Const(remain, 0)

Methods == {"gauss", "2step", "step", "Ustep", "sin"}

\* whether np.zeros, np.ones or np.linspace is asked for a negative length
NegativeLength(x0, sigma, method, resolution) ==
    \/ resolution < 0
    \/ method = "step" /\ (x0 - sigma < 0 \/ 2 * sigma + 1 < 0
                              \/ (resolution - x0) - sigma - 1 < 0)
    \/ method = "2step" /\ (x0 - sigma[1] < 0 \/ 2 * sigma[1] + 1 < 0
                              \/ sigma[2] - 1 < 0 \/ sigma[3] - 1 < 0)

\* y as the method branches leave it (before centering)
course(x0, sigma, amplitude, method, resolution) ==
    CASE method = "gauss" -> gauss(x0, sigma, amplitude, resolution)
      [] method = "2step" -> twostep(x0, sigma, amplitude, resolution)
      [] method = "step"  -> step(x0, sigma, amplitude, resolution)
      [] method = "Ustep" -> Ustep(x0, sigma, amplitude, resolution)
      [] method = "sin"   -> sin(x0, resolution)

\* mutant of centre: the course is shifted by the sample before the midpoint
centre_before(y, resolution) ==
    [i \in 1 .. Len(y) |-> Sub(y[i], y[Max(1, resolution \div 2)])]

\* y = y - y[resolution // 2]
centre(y, resolution) ==
    [i \in 1 .. Len(y) |-> Sub(y[i], y[(resolution \div 2) + 1])]

Returned(y) == [raised |-> "none", y |-> y]
Raises(exc) == [raised |-> exc, y |-> <<>>]

\* corrupt_data(x0, sigma, amplitude, method, mvt_axes, center, resolution):
\* the course returned, or the exception raised
corrupt_data(x0, sigma, amplitude, method, mvt_axes, center, resolution) ==
    IF NegativeLength(x0, sigma, method, resolution) THEN Raises("ValueError")
    ELSE IF method \notin Methods
    THEN \* no branch binds y: its first use raises
         Raises("UnboundLocalError")
    ELSE LET y == course(x0, sigma, amplitude, method, resolution)
         IN  IF center = "zero" /\ resolution \div 2 >= Len(y) THEN Raises("IndexError")
             ELSE IF \E j \in 1 .. Len(mvt_axes) : mvt_axes[j] < -6 \/ mvt_axes[j] > 5
             THEN Raises("IndexError")
             ELSE IF center = "zero" THEN Returned(centre(y, resolution))
             ELSE Returned(y)

(***************************************************************************)
(* corrupt_data called on its own.                                         *)
(***************************************************************************)
\* largest resolution of the short courses
MaxRes == 5
\* largest sigma of the short courses
MaxSigma == 2

Amplitudes == {-1, 0, 2}

\* def corrupt_data(..., mvt_axes=[1], ...)
DefaultAxes == <<1>>

\* the short courses of the methods that take a scalar sigma and amplitude
ScalarInputs ==
    [x0 : -1 .. MaxRes, sigma : 0 .. MaxSigma, amplitude : Amplitudes,
     method : {"gauss", "step", "Ustep", "sin"}, mvt_axes : {DefaultAxes},
     center : {"zero", "none"}, resolution : 0 .. MaxRes]

\* the short courses of '2step', whose sigma and amplitude are lists
ListInputs ==
    [x0 : -1 .. MaxRes, sigma : (0 .. 1) \X (0 .. MaxSigma) \X (1 .. MaxSigma),
     amplitude : {<<2, -1>>, <<1, 2>>},
     method : {"2step"}, mvt_axes : {DefaultAxes},
     center : {"zero", "none"}, resolution : 0 .. MaxRes]

\* corrupt_data(x0=100, sigma=80, amplitude=10, method='Ustep', resolution=512),
\* and steps on either side of the pivot at the default resolution
ExampleInputs ==
    [x0 : {100}, sigma : {80}, amplitude : {10}, method : {"Ustep"},
     mvt_axes : {DefaultAxes}, center : {"zero", "none"}, resolution : {512}]
    \cup
    [x0 : {60, 150}, sigma : {20}, amplitude : {10}, method : {"step"},
     mvt_axes : {DefaultAxes}, center : {"zero", "none"}, resolution : {200, 512}]

\* calls with a method name that no branch of corrupt_data tests for, with
\* and without centering and motion axes
UnknownMethodInputs ==
    [x0 : {0, 2}, sigma : {1}, amplitude : {2}, method : {"square", "Gauss"},
     mvt_axes : {<<>>, DefaultAxes, <<0, 3>>}, center : {"zero", "none"},
     resolution : {0, 4}]

\* calls that name rows of fp other than the default one, some outside its
\* six rows
AxesInputs ==
    [x0 : {2}, sigma : {1}, amplitude : {2}, method : {"Ustep", "gauss"},
     mvt_axes : {<<>>, <<0, 5>>, <<6>>, <<-6>>, <<1, -7>>}, center : {"zero", "none"},
     resolution : {4}]

CourseInputs ==
    ScalarInputs \cup ListInputs \cup ExampleInputs \cup UnknownMethodInputs \cup AxesInputs

CourseInit ==
    /\ pc = "start"
    /\ args = NoValue
    /\ self = NoValue
    /\ ret = NoValue

CallCorruptData ==
    /\ pc = "start"
    /\ \E in \in CourseInputs :
          /\ args' = in
          /\ ret' = corrupt_data(in.x0, in.sigma, in.amplitude, in.method,
                                 in.mvt_axes, in.center, in.resolution)
    /\ pc' = "corrupt_data"
    /\ UNCHANGED self

CourseNext == CallCorruptData

SpecCourse == CourseInit /\ [][CourseNext]_vars

\* a call of corrupt_data with a recognized method has returned a course
CourseReturned ==
    pc = "corrupt_data" /\ args.method \in Methods /\ ret.raised = "none"

\* the sample at index resolution // 2 of the returned course
Midpoint == ret.y[(args.resolution \div 2) + 1]

\* C9 as stated: with center='zero' the returned course is exactly 0 at index
\* resolution // 2, whenever a course is returned.
C9_CentredMidpointIsZero ==
    (CourseReturned /\ args.center = "zero") => IsZeroSample(Midpoint)

\* C9, amended: with center='zero' the returned course is exactly 0 at index
\* resolution // 2 whenever its value there before centering is a number; it
\* is NaN there (as is the whole course) when that value is NaN, which is so
\* for method 'gauss' with sigma = 0 and x0 = resolution // 2 and for method
\* 'sin' with x0 = 0.
C9_CentredMidpointIsZeroUnlessNaN ==
    (CourseReturned /\ args.center = "zero") =>
        LET degenerate ==
                \/ args.method = "gauss" /\ args.sigma = 0
                      /\ args.x0 = args.resolution \div 2
                \/ args.method = "sin" /\ args.x0 = 0
        IN  /\ ~degenerate => IsZeroSample(Midpoint)
            /\ degenerate => \A i \in 1 .. Len(ret.y) : ret.y[i].k = "nan"

\* a centred gaussian bump: 0 at the midpoint, not 0 at its centre x0
C9_Witness ==
    /\ CourseReturned /\ args.center = "zero"
    /\ args.method = "gauss" /\ args.sigma >= 1 /\ args.amplitude /= 0
    /\ args.x0 >= 0 /\ args.x0 < args.resolution
    /\ args.x0 /= args.resolution \div 2
    /\ IsZeroSample(Midpoint)
    /\ ~IsZeroSample(ret.y[args.x0 + 1])

\* the value at index i of the pulse that is amplitude from lo through hi
Pulse(i, lo, hi, amplitude) == IF lo <= i /\ i <= hi THEN amplitude ELSE 0

\* whether the returned course is the pulse from lo through hi, shifted by its
\* value at resolution // 2 when center = 'zero'
ReturnedPulse(lo, hi) ==
    /\ Len(ret.y) = args.resolution
    /\ \A i \in 0 .. args.resolution - 1 :
          ret.y[i + 1] =
             IF args.center = "zero"
             THEN Rat(Pulse(i, lo, hi, args.amplitude)
                        - Pulse(args.resolution \div 2, lo, hi, args.amplitude), 1)
             ELSE Rat(Pulse(i, lo, hi, args.amplitude), 1)

IsUstepExample ==
    /\ args.method = "Ustep" /\ args.x0 = 100 /\ args.sigma = 80
    /\ args.amplitude = 10 /\ args.resolution = 512 /\ args.center = "zero"

\* C10 as stated: 'Ustep' is amplitude at every index from x0 - sigma // 2
\* through x0 + sigma // 2 and 0 elsewhere (before centering); the example is
\* 10 from 60 to 140, 0 elsewhere, 0 at 256.
C10_UstepPulseIsClosedInterval ==
    (CourseReturned /\ args.method = "Ustep" /\ args.x0 + (args.sigma \div 2) >= 0) =>
        /\ ReturnedPulse(args.x0 - (args.sigma \div 2), args.x0 + (args.sigma \div 2))
        /\ IsUstepExample =>
              \A i \in 0 .. 511 :
                 ret.y[i + 1] = IF 60 <= i /\ i <= 140 THEN Rat(10, 1) ELSE Rat(0, 1)

\* C10, amended: 'Ustep' (for x0 + sigma // 2 >= 0) is amplitude at every
\* index from x0 - sigma // 2 through x0 + sigma // 2 - 1 and 0 at every other
\* index (before centering); the example is 10 at every index from 60 to 139,
\* 0 at every other index, index 140 and index 256 among them.
C10_UstepPulseIsHalfOpenInterval ==
    (CourseReturned /\ args.method = "Ustep" /\ args.x0 + (args.sigma \div 2) >= 0) =>
        /\ ReturnedPulse(args.x0 - (args.sigma \div 2), args.x0 + (args.sigma \div 2) - 1)
        /\ IsUstepExample =>
              /\ \A i \in 0 .. 511 :
                    ret.y[i + 1] = IF 60 <= i /\ i <= 139 THEN Rat(10, 1) ELSE Rat(0, 1)
              /\ IsZeroSample(ret.y[141]) /\ IsZeroSample(ret.y[257])

\* the example has returned: 10 at index 139, 0 at index 140
C10_Witness ==
    /\ CourseReturned /\ IsUstepExample
    /\ ret.y[140] = Rat(10, 1)
    /\ ret.y[141] = Rat(0, 1)

\* the call of corrupt_data was given a method name outside the five that
\* the code tests for
UnknownMethodCall == pc = "corrupt_data" /\ args.method \notin Methods

\* C11: corrupt_data called with a method name outside {gauss, 2step, step,
\* Ustep, sin} fails with an explicit invalid-parameter error raised because
\* the method is unrecognized, for every center and mvt_axes, and never
\* returns a course.
C11_UnknownMethodIsInvalidParameter ==
    UnknownMethodCall => ret.raised = "InvalidParameter"

\* what the code does for an unknown method: no course is returned, the
\* failure being the UnboundLocalError of the first read of y
C11_UnknownMethodIsUnboundLocal ==
    UnknownMethodCall => ret.raised = "UnboundLocalError"

\* an unknown method without centering and without motion axes
C11_Witness ==
    UnknownMethodCall /\ args.center = "none" /\ args.mvt_axes = <<>>

(***************************************************************************)
(* simu_motion of src/script/test_motion_1D.py.                            *)
(*                                                                         *)
(* An array is a record [ndim, rows]: rows is the sequence of its rows, a  *)
(* 1-D array having one row.  Signals and courses hold integers.  A        *)
(* transform is kept as the array it is the transform of and the circular  *)
(* shift k of its frequency bins along each axis: [of, k].  Its product    *)
(* with the phase ramp keeps the ramp beside it: [of, k, phase], phase[j]  *)
(* the phase of bin j as a fraction of a turn.  A complex sample is the    *)
(* sum of c * exp(2 pi i t) over its terms [c, t], over a common divisor:  *)
(* [sum, over].  The arithmetic is that of the reals (np.complex is read   *)
(* as complex).                                                            *)
(***************************************************************************)
Array1(row) == [ndim |-> 1, rows |-> <<row>>]
Array2(rows) == [ndim |-> 2, rows |-> rows]

\* len of the last axis, and of the axis before it (1 for a 1-D array)
LastLen(a) == Len(a.rows[1])
RowCount(a) == Len(a.rows)

\* np.roll(a, s) of a sequence: element i moves to i + s
roll(a, s) ==
    [i \in 1 .. Len(a) |-> a[((i - 1 - s) % Len(a)) + 1]]

\* a roll along both axes of an array
roll2(a, s0, s1) ==
    [a EXCEPT !.rows = roll([r \in 1 .. Len(a.rows) |-> roll(a.rows[r], s1)], s0)]

\* np.fft.ifftshift: every axis is rolled by -(n // 2)
ifftshift(a) == roll2(a, -(RowCount(a) \div 2), -(LastLen(a) \div 2))

\* np.fft.fftn: the transform over every axis
fftn(a) == [of |-> a, k |-> <<0, 0>>]

\* np.fft.fftshift of a transform: its bins are rolled by n // 2
fftshift(F) ==
    [F EXCEPT !.k = <<(F.k[1] + RowCount(F.of) \div 2) % RowCount(F.of),
                      (F.k[2] + LastLen(F.of) \div 2) % LastLen(F.of)>>]

\* whether np.arange(-1, 1 + 2 / resolution, 2 / (resolution - 1)) divides by 0
KxDividesByZero(resolution) == resolution = 0 \/ resolution = 1

\* np.arange(-1, 1 + 2 / resolution, 2 / (resolution - 1)): resolution
\* values from -1 to 1, each a fraction [n, d]
kx(resolution) ==
    [j \in 1 .. resolution |->
        [n |-> 2 * (j - 1) - (resolution - 1), d |-> resolution - 1]]

\* a fraction of a turn, in [0, 1)
Turn(n, d) == [n |-> (n % d) \div Gcd(n % d, d), d |-> d \div Gcd(n % d, d)]

\* np.exp(-1j * math.pi * kx * fp): the phase of each bin, -kx * fp / 2 of a
\* turn; fp is a course, or the one number every bin is multiplied by
fp_kspace(k, fp) ==
    [j \in 1 .. Len(k) |-> Turn(-k[j].n * fp[j], 2 * k[j].d)]

\* fi * fp_kspace
Times(F, phase) == [of |-> F.of, k |-> F.k, phase |-> phase]

RECURSIVE SumSeq(_)
SumSeq(q) == IF q = <<>> THEN 0 ELSE Head(q) + SumSeq(Tail(q))

RECURSIVE GcdOf(_)
GcdOf(S) ==
    IF S = {} THEN 0
    ELSE LET n == CHOOSE n \in S : TRUE IN Gcd(n, GcdOf(S \ {n}))

\* c * exp(2 pi i n / d) with its turn in [0, 1/2): half a turn is a factor -1
Folded(c, n, d) ==
    LET t == Turn(n, d)
    IN  IF 2 * t.n >= t.d THEN [c |-> -c, t |-> Turn(2 * t.n - t.d, 2 * t.d)]
        ELSE [c |-> c, t |-> t]

\* the sum of f over the set S of its arguments
RECURSIVE SumOver(_, _)
SumOver(f, S) ==
    IF S = {} THEN 0
    ELSE LET e == CHOOSE e \in S : TRUE IN f[e] + SumOver(f, S \ {e})

\* the complex number that is the sum of the terms (a function from indices
\* to terms) divided by over: terms of one turn are added and the fraction
\* is reduced
Complex(terms, over) ==
    LET turns == {terms[e].t : e \in DOMAIN terms}
        coef  == [t \in turns |->
                     SumOver([e \in DOMAIN terms |-> terms[e].c],
                             {e \in DOMAIN terms : terms[e].t = t})]
        kept  == {t \in turns : coef[t] /= 0}
        g     == GcdOf({over} \cup {Abs(coef[t]) : t \in kept})
    IN  [sum |-> {[c |-> coef[t] \div g, t |-> t] : t \in kept}, over |-> over \div g]

\* all the (r, j, a, m) of a double sum over K x M bins and K x N samples
Indices(K, M, N) == (0 .. K - 1) \X (0 .. M - 1) \X (0 .. K - 1) \X (0 .. N - 1)

\* np.fft.ifftn of the product fm of a transform and a phase ramp of M bins
\* (numpy broadcasts a last axis of length 1 to the M bins).  Sample (q, n) is
\* the sum over the bins (r, j) and the samples (a, m) of
\*   x[a][m] exp(2 pi i (phase[j] - (r - k1) a / K - (j - k2) m / N
\*                        + r q / K + j n / M)) / (K M);
\* where every bin has the same phase the sum over the bins closes, and the
\* sample is x[q][n] exp(2 pi i (phase + k1 q / K + k2 n / M)), x being a row
\* followed by zeros when it was broadcast.
ifftn(fm) ==
    LET K  == RowCount(fm.of)
        N  == LastLen(fm.of)
        M  == Len(fm.phase)
        x  == fm.of.rows
        k1 == fm.k[1]
        k2 == IF N = M THEN fm.k[2] ELSE 0
        D  == K * N * M
        at(q, n) == IF N = M \/ n = 0 THEN x[q + 1][IF N = M THEN n + 1 ELSE 1] ELSE 0
        closed(q, n) ==
            Complex(<<Folded(at(q, n),
                             fm.phase[1].n * K * M
                               + (k1 * q * M + k2 * n * K) * fm.phase[1].d,
                             fm.phase[1].d * K * M)>>, 1)
        term(q, n, e) ==
            LET r == e[1]
                j == e[2]
                a == e[3]
                m == e[4]
                b == IF N = M THEN j ELSE 0
                p == fm.phase[j + 1]
            IN  Folded(x[a + 1][m + 1],
                       p.n * D + p.d * ((r * q - (r - k1) * a) * N * M
                                          - (b - fm.k[2]) * m * K * M
                                          + j * n * K * N),
                       p.d * D)
        open(q, n) == Complex([e \in Indices(K, M, N) |-> term(q, n, e)], K * M)
        same == \A j \in 1 .. M : fm.phase[j] = fm.phase[1]
    IN  [fm.of EXCEPT !.rows =
            [r \in 1 .. K |-> [n \in 1 .. M |->
                IF same THEN closed(r - 1, n - 1) ELSE open(r - 1, n - 1)]]]

\* np.abs of a complex sample: a whole number or a fraction where the sample
\* has a single term, and the expression itself otherwise
Magnitude(z) ==
    IF z.sum = {} THEN 0
    ELSE IF Cardinality(z.sum) = 1
    THEN LET s == CHOOSE s \in z.sum : TRUE
         IN  IF z.over = 1 THEN Abs(s.c) ELSE Rat(Abs(s.c), z.over)
    ELSE [abs |-> z]

\* np.abs of an array of complex samples
abs(a) ==
    [a EXCEPT !.rows = [r \in 1 .. Len(a.rows) |->
                           [n \in 1 .. Len(a.rows[r]) |-> Magnitude(a.rows[r][n])]]]

\* simu_motion(fp, so, return_abs) for a 1-D course fp and a non-empty signal
\* so: the array returned, or the exception raised
simu_motion(fp, so, return_abs) ==
    LET resolution == Len(fp)
        fi == fftshift(fftn(ifftshift(so)))
    IN  IF KxDividesByZero(resolution) THEN [raised |-> "ZeroDivisionError"]
        ELSE IF LastLen(so) /= resolution /\ LastLen(so) /= 1
        THEN \* operands could not be broadcast together
             [raised |-> "ValueError"]
        ELSE LET fm  == Times(fi, fp_kspace(kx(resolution), fp))
                 som == ifftshift(ifftn(fm))
             IN  [raised |-> "none", som |-> IF return_abs THEN abs(som) ELSE som]

(***************************************************************************)
(* l1_shfit and l1_shfit_fft: the brute-force search of a uniform shift.   *)
(* Signals are sequences of integers; the plots are left out.              *)
(***************************************************************************)
\* a[start:stop] of a sequence, for start and stop of either sign
PyIndex(j, len) == IF j < 0 THEN Max(0, j + len) ELSE Min(j, len)
PySlice(a, start, stop) ==
    SubSeq(a, PyIndex(start, Len(a)) + 1, PyIndex(stop, Len(a)))

\* y1[-shift:]; -0 is 0, so this is the whole of y1 for shift = 0
TailFrom(y1, shift) == PySlice(y1, -shift, Len(y1))

\* mutant of shifted: the signal is rolled the other way
shifted_left(y1, shift) == PySlice(y1, shift, Len(y1)) \o PySlice(y1, 0, shift)

\* np.hstack([y1[-shift:], y1[0:-shift]])
shifted(y1, shift) == TailFrom(y1, shift) \o PySlice(y1, 0, -shift)

\* whether numpy can broadcast two 1-D arrays of these lengths
Broadcasts(n, m) == n = m \/ n = 1 \/ m = 1

\* element j of a 1-D array broadcast to a longer one
At(a, j) == IF Len(a) = 1 THEN a[1] ELSE a[j]

\* the length two broadcast 1-D arrays have together
BroadcastLen(n, m) == IF n = 1 THEN m ELSE n

\* np.sum(np.abs(y - y2))
L1(y, y2) ==
    SumSeq([j \in 1 .. BroadcastLen(Len(y), Len(y2)) |-> Abs(At(y, j) - At(y2, j))])

\* np.sum((ym - y2) ** 2)
L2(y, y2) ==
    SumSeq([j \in 1 .. BroadcastLen(Len(y), Len(y2)) |->
               (At(y, j) - At(y2, j)) * (At(y, j) - At(y2, j))])

\* mutant of argmin: the last of the least entries
argmin_last(l) ==
    CHOOSE j \in 1 .. Len(l) :
        /\ \A m \in 1 .. Len(l) : l[j] <= l[m]
        /\ \A m \in j + 1 .. Len(l) : l[j] < l[m]

\* np.argmin of a non-empty list of numbers: the first of the least entries
\* (counted from 1)
argmin(l) ==
    CHOOSE j \in 1 .. Len(l) :
        /\ \A m \in 1 .. Len(l) : l[j] <= l[m]
        /\ \A m \in 1 .. j - 1 : l[j] < l[m]

\* l1_shfit(y1, y2, shifts): the shift returned (with the list of distances)
\* or the exception raised
l1_shfit(y1, y2, shifts) ==
    IF shifts /= <<>> /\ ~Broadcasts(Len(y1), Len(y2)) THEN [raised |-> "ValueError"]
    ELSE IF shifts = <<>>
    THEN \* attempt to get argmin of an empty sequence
         [raised |-> "ValueError"]
    ELSE LET l1 == [c \in 1 .. Len(shifts) |-> L1(shifted(y1, shifts[c]), y2)]
         IN  [raised |-> "none", l1 |-> l1, disp |-> shifts[argmin(l1)]]

\* ym of l1_shfit_fft for one candidate shift, in the reals: fi and kx are
\* those of y1
ym(y1, shift) ==
    LET fi == fftshift(fftn(ifftshift(Array1(y1))))
        fm == Times(fi, fp_kspace(kx(Len(y1)), [j \in 1 .. Len(y1) |-> shift]))
    IN  abs(ifftshift(ifftn(fm))).rows[1]

Losses == {"L1", "L2"}

\* Whether the floats give the distance of a candidate as the reals do.  They
\* do for the zero signal (every product is 0), and for a signal of two
\* samples (its transforms are a sum and a difference) when the shift is 0
\* (np.exp(-0j) is 1) or no sample of ym is 0: the sine of the phase is about
\* 1e-16 where the reals have 0, which is lost in the magnitude of a sample
\* that is not 0 and is the magnitude of a sample that is 0.
ExactDistance(y1, shift) ==
    \/ \A j \in 1 .. Len(y1) : y1[j] = 0
    \/ Len(y1) = 2 /\ (shift = 0 \/ \A j \in 1 .. 2 : ym(y1, shift)[j] /= 0)

\* The computed distance of a candidate is [v, r]: v the distance in the
\* reals, r the rank of its rounding error among the computed distances of
\* one v.  For a signal of two samples the error is that of the sample of
\* ym that is 0 in the reals and is positive in the floats, which takes the
\* distance away from y2 there, or is lost in the sum; for a longer signal
\* it is that of the transforms, of either sign.
RoundingRanks(y1, y2, shift) ==
    IF ExactDistance(y1, shift) THEN {0}
    ELSE IF Len(y1) = 2
    THEN LET n0 == CHOOSE j \in 1 .. 2 : ym(y1, shift)[j] = 0
             d  == IF At(y2, n0) > 0 THEN -1 ELSE 1
         IN  {0, d, 2 * d}
    ELSE {-1, 0, 1}

\* the roundings of one call, a rank for each value of shifts (0 when the
\* call raises): a shift and its opposite give a signal of two samples the
\* same floats
Roundings(y1, y2, shifts, loss) ==
    LET values == {shifts[c] : c \in 1 .. Len(shifts)}
    IN  IF KxDividesByZero(Len(y1)) \/ loss \notin Losses \/ ~Broadcasts(Len(y1), Len(y2))
        THEN {[s \in values |-> 0]}
        ELSE LET ranks == [s \in values |-> RoundingRanks(y1, y2, s)]
             IN  {f \in [values -> UNION {ranks[s] : s \in values}] :
                     /\ \A s \in values : f[s] \in ranks[s]
                     /\ Len(y1) = 2 => \A s \in values : -s \in values => f[s] = f[-s]}

\* the order of two computed distances
Below(a, b) == a.v < b.v \/ (a.v = b.v /\ a.r < b.r)

\* l1_shfit_fft(y1, y2, shifts, loss) for a non-empty 1-D signal y1 whose
\* magnitudes ym are whole numbers in the reals for every candidate (a signal
\* of two samples, or candidates whose phase is the same in every bin);
\* rounding is one of Roundings(y1, y2, shifts, loss)
l1_shfit_fft(y1, y2, shifts, loss, rounding) ==
    IF KxDividesByZero(Len(y1)) THEN [raised |-> "ZeroDivisionError"]
    ELSE IF shifts /= <<>> /\ loss \notin Losses
    THEN \* ll1 is bound by neither test of loss
         [raised |-> "UnboundLocalError"]
    ELSE IF shifts /= <<>> /\ ~Broadcasts(Len(y1), Len(y2)) THEN [raised |-> "ValueError"]
    ELSE IF shifts = <<>> THEN [raised |-> "ValueError"]
    ELSE LET l1 == [c \in 1 .. Len(shifts) |->
                       [v |-> IF loss = "L1" THEN L1(ym(y1, shifts[c]), y2)
                              ELSE L2(ym(y1, shifts[c]), y2),
                        r |-> rounding[shifts[c]]]]
             place == [c \in 1 .. Len(shifts) |->
                          Cardinality({m \in 1 .. Len(shifts) : Below(l1[m], l1[c])})]
         IN  [raised |-> "none", l1 |-> l1, disp |-> shifts[argmin(place)]]

(***************************************************************************)
(* sym_imag: the scan for a change of sign of the band sum.                *)
(*                                                                         *)
(* The transform Fi has BandLength bins and one spectral line: Fi is       *)
(* [len, k, re, im], the value re + j im at index k (from 0) and 0 in the  *)
(* other bins, with re = 0 or im = 0.  At trial i the line is turned by    *)
(* exp(-2j pi g t) with g = linspace(-0.5, 0.5, len)[k] and                *)
(* t = i / resolution, a fraction (2k - (len-1)) * i / Period of a turn,   *)
(* so the sign of the band sum and the order of two absolute band sums     *)
(* are decided in the integers, but for the sign at a trial where the sum  *)
(* is 0 in the reals, which is that of a float rounding error.             *)
(***************************************************************************)
\* resolution=1000
TrialResolution == 1000
\* xx = np.arange(-30000,30000)
TrialLo == -30000
TrialHi == 30000
\* np.ones(200): the number of bins the trial shifts are made for
BandLength == 200
\* Fit[0:100] and Fit[101:]: the bin left out of the two bands
BandCentre == 100

\* the trials of one turn of the bin at the end of the grid
Period == 2 * (BandLength - 1) * TrialResolution

\* the phase of the line at trial i, as a count of Period-ths of a turn
LinePhase(Fi, i) == ((2 * Fi.k - (BandLength - 1)) * i) % Period

\* The sign the floats give to a sine or a cosine that is 0 in the reals.
\* At trial 0 the phase is 0 and np.exp(-0j) is 1: the sine is 0.  At another
\* trial the phase handed to np.exp is a double next to a multiple of a
\* quarter turn, and its sine or cosine is about 1e-15 and never 0; its sign
\* is that of the rounding: 1 at the trials of up, -1 at the others.
RoundedSign(exact, i, up) ==
    IF exact /= 0 \/ i = 0 THEN exact ELSE IF i \in up THEN 1 ELSE -1

\* the sign of sin and of cos in the reals at p Period-ths of a turn
ExactSinSign(p) ==
    IF p % (Period \div 2) = 0 THEN 0
    ELSE IF (p % Period) < (Period \div 2) THEN 1 ELSE -1

\* the sign of the sin and of the cos of np.exp at trial i, the phase being
\* p Period-ths of a turn
SinSign(p, i, up) == RoundedSign(ExactSinSign(p), i, up)
CosSign(p, i, up) == RoundedSign(ExactSinSign(p + (Period \div 4)), i, up)

\* |sin| and |cos| at p Period-ths of a turn grow with these
SinSize(p) == Min(p % (Period \div 2), (Period \div 2) - (p % (Period \div 2)))
CosSize(p) == SinSize(p + (Period \div 4))

Sgn(n) == IF n > 0 THEN 1 ELSE IF n < 0 THEN -1 ELSE 0

\* the sign of np.sum(np.imag(Fit[0:100])) + np.sum(np.imag(Fit[101:])) at
\* trial i: the imaginary part of (re + j im) * exp(-j phase) is
\* im * cos(phase) - re * sin(phase)
BandSumSign(Fi, i, up) ==
    IF Fi.k = BandCentre THEN 0
    ELSE IF Fi.re = 0 THEN Sgn(Fi.im) * CosSign(LinePhase(Fi, i), i, up)
    ELSE -Sgn(Fi.re) * SinSign(LinePhase(Fi, i), i, up)

\* a number that orders the absolute band sums of the trials of one Fi (the
\* sum of a trial where the floats give 1e-15 for 0 is below every other)
BandSumSize(Fi, i) ==
    IF Fi.k = BandCentre \/ (Fi.re = 0 /\ Fi.im = 0) THEN 0
    ELSE IF Fi.re = 0 THEN CosSize(LinePhase(Fi, i))
    ELSE SinSize(LinePhase(Fi, i))

\* if s2*s1 < 0
SignChange(Fi, i, up) == BandSumSign(Fi, i, up) * BandSumSign(Fi, i + 1, up) < 0

\* exp_phase_shift * Fi for the trial shift t / resolution
Shifted(Fi, t) == [of |-> Fi, trial |-> t]

\* mutant of FirstSignChange: the scan runs from the last trial down
LastSignChange(Fi, up) ==
    LET hits == {i \in TrialLo .. TrialHi - 1 : SignChange(Fi, i, up)}
    IN  IF hits = {} THEN {} ELSE {CHOOSE i \in hits : \A h \in hits : h <= i}

\* for i in xx: the first trial at which the test of the sign succeeds, as a
\* set that is empty when the loop runs to its end
FirstSignChange(Fi, up) ==
    LET hits == {i \in TrialLo .. TrialHi - 1 : SignChange(Fi, i, up)}
    IN  IF hits = {} THEN {} ELSE {CHOOSE i \in hits : \A h \in hits : i <= h}

\* sym_imag(Fi) for a 1-D transform of at least two bins, up being the
\* trials at which the floats round a sine or a cosine of 0 to a positive
\* number
sym_imag(Fi, up) ==
    IF Fi.len /= BandLength
    THEN \* np.multiply(grid_coords, t1): operands could not be broadcast
         [raised |-> "ValueError"]
    ELSE LET first == FirstSignChange(Fi, up)
         IN  IF first = {} THEN [raised |-> "none", F |-> Fi]
             ELSE LET i == CHOOSE h \in first : TRUE
                  IN  IF BandSumSize(Fi, i) < BandSumSize(Fi, i + 1)
                      THEN [raised |-> "none", F |-> Shifted(Fi, i)]
                      ELSE [raised |-> "none", F |-> Shifted(Fi, i + 1)]

(***************************************************************************)
(* The motion functions called on their own.                               *)
(***************************************************************************)
\* longest of the short signals
MaxLen == 3

\* the sequences of length 1 .. n over the values V
SeqsUpTo(V, n) == UNION {[1 .. m -> V] : m \in 1 .. n}

SignalValues == {-1, 0, 2}

\* 1-D signals, and signals with a leading dimension
Signals1D ==
    {Array1(q) : q \in SeqsUpTo(SignalValues, MaxLen) \cup {<<1, 2, 3, 4>>, <<-1, 0, 2, 0>>}}
Signals2D ==
    {Array2(<<<<1, 2>>, <<3, 4>>>>), Array2(<<<<1, 2, 3>>, <<0, -1, 0>>>>),
     Array2(<<<<1>>, <<2>>>>), Array2(<<<<2, 0, 1>>>>)}

\* the all-zero courses of length 0 .. MaxLen + 1, and two courses that move
ZeroCourses == {[j \in 1 .. m |-> 0] : m \in 0 .. MaxLen + 1}
Courses == ZeroCourses \cup {<<1, 0>>, <<0, 2, 0>>}

\* signals and candidate lists of the shift search
BitSignals == SeqsUpTo({0, 1}, MaxLen + 1)
Range(a, b) == [j \in 1 .. b - a |-> a + j - 1]
ShiftLists == {Range(-2, 3), <<2, 1, 0, -1>>, <<1, 1>>, <<3, 0, -3>>, <<>>}

\* signal_a of the example: 20 samples that no roll by less than 20 leaves alike
SpikeSignal == [j \in 1 .. 20 |-> IF j = 1 THEN 2 ELSE IF j = 2 THEN 1 ELSE 0]
\* a signal of 10 samples, for which a roll by 7 is a roll by -3
ShortSpike == [j \in 1 .. 10 |-> IF j = 1 THEN 2 ELSE IF j = 2 THEN 1 ELSE 0]

\* calls of l1_shfit with y2 = np.roll(y1, s) (rolled, by s), and with a
\* y2 of its own
RolledInputs ==
    {[y1 |-> y1, y2 |-> roll(y1, s), shifts |-> sh, rolled |-> TRUE, rolled_by |-> s] :
        y1 \in BitSignals, s \in -2 .. 3, sh \in ShiftLists}
    \cup
    {[y1 |-> y1, y2 |-> roll(y1, 7), shifts |-> Range(-10, 10), rolled |-> TRUE, rolled_by |-> 7] :
        y1 \in {SpikeSignal, ShortSpike, [j \in 1 .. 20 |-> 1]}}
FreeInputs ==
    {[y1 |-> y1, y2 |-> y2, shifts |-> sh, rolled |-> FALSE, rolled_by |-> 0] :
        y1 \in {<<0, 0, 0>>, <<1, 0, 2>>, <<2, 1>>}, y2 \in {<<1, 0, 1>>, <<1>>, <<0, 2>>},
        sh \in ShiftLists}
ShiftInputs == RolledInputs \cup FreeInputs

\* calls of l1_shfit_fft: signals of two samples with every candidate list,
\* longer signals with the candidates the phase of which is the same in
\* every bin, the zero signal of three samples with the others as well
EvenShiftLists == {<<0, 0>>, <<6, 0, -6>>, <<>>}
FftShiftInputs ==
    [y1 : {<<0>>, <<0, 0>>, <<1, 2>>, <<2, 0>>},
     y2 : {<<1, 0, 1>>, <<0, 0>>, <<2, 1>>, <<1>>},
     shifts : ShiftLists \cup {<<6, 0, -6>>},
     loss : Losses \cup {"L3"}]
    \cup
    [y1 : {<<0, 0, 0>>, <<1, 0, 2>>, <<2, 0, 1, 1>>},
     y2 : {<<1, 0, 1>>, <<2, 1>>, <<1>>},
     shifts : EvenShiftLists,
     loss : Losses \cup {"L3"}]
    \cup
    [y1 : {<<0, 0, 0>>, <<1, 0, 2>>},
     y2 : {<<1, 0, 1>>},
     shifts : {<<2, 0, -2>>, <<-2, 4>>},
     loss : Losses]
    \cup
    [y1 : {<<0, 0, 0>>},
     y2 : {<<1, 0, 1>>, <<1>>},
     shifts : {<<1, 1>>, <<3, 0, -3>>},
     loss : Losses]

\* transforms with one line, on either side of the centre bin and on it
LineTransforms ==
    [len : {BandLength}, k : {0, 99}, re : {-1, 2}, im : {0}]
    \cup [len : {BandLength}, k : {100, 162}, re : {2}, im : {0}]
    \cup [len : {BandLength}, k : {103}, re : {0}, im : {-3, 0, 1}]
    \cup [len : {BandLength}, k : {150, 162}, re : {0}, im : {-3, 1}]
    \cup [len : {MaxLen}, k : {1}, re : {1}, im : {0}]

\* the trials, other than trial 0, at which the band sum is 0 in the reals
ZeroTrials(Fi) ==
    IF Fi.len /= BandLength \/ Fi.k = BandCentre \/ (Fi.re = 0 /\ Fi.im = 0) THEN {}
    ELSE {i \in (TrialLo .. TrialHi) \ {0} :
             ExactSinSign(LinePhase(Fi, i) + (IF Fi.re = 0 THEN Period \div 4 ELSE 0)) = 0}

\* the first trial of the scan when it is in S, and the least of the others
FirstZeros(S) ==
    LET later == S \ {TrialLo}
    IN  (S \cap {TrialLo}) \cup {i \in later : \A h \in later : i <= h}

\* the roundings of a scan: the band sum changes sign across each trial of
\* ZeroTrials, so the scan ends at the first of them after TrialLo at the
\* latest, and the sign the floats give at a trial it reaches is either one
SignRoundings(Fi) ==
    LET zeros == ZeroTrials(Fi)
    IN  SUBSET FirstZeros(zeros)

MotionInit ==
    /\ pc = "start"
    /\ args = NoValue
    /\ self = NoValue
    /\ ret = NoValue

CallSimuMotion ==
    /\ pc = "start"
    /\ \E fp \in Courses, so \in Signals1D \cup Signals2D, return_abs \in BOOLEAN :
          /\ args' = [fp |-> fp, so |-> so, return_abs |-> return_abs]
          /\ ret' = simu_motion(fp, so, return_abs)
    /\ pc' = "simu_motion"
    /\ UNCHANGED self

CallL1Shfit ==
    /\ pc = "start"
    /\ \E in \in ShiftInputs :
          /\ args' = in
          /\ ret' = l1_shfit(in.y1, in.y2, in.shifts)
    /\ pc' = "l1_shfit"
    /\ UNCHANGED self

CallL1ShfitFft ==
    /\ pc = "start"
    /\ \E in \in FftShiftInputs :
          \E rounding \in Roundings(in.y1, in.y2, in.shifts, in.loss) :
              /\ args' = [y1 |-> in.y1, y2 |-> in.y2, shifts |-> in.shifts,
                           loss |-> in.loss, rounding |-> rounding]
              /\ ret' = l1_shfit_fft(in.y1, in.y2, in.shifts, in.loss, rounding)
    /\ pc' = "l1_shfit_fft"
    /\ UNCHANGED self

CallSymImag ==
    /\ pc = "start"
    /\ \E Fi \in LineTransforms :
          \E up \in SignRoundings(Fi) :
              /\ args' = [Fi |-> Fi, up |-> up]
              /\ ret' = sym_imag(Fi, up)
    /\ pc' = "sym_imag"
    /\ UNCHANGED self

MotionNext ==
    \/ CallSimuMotion
    \/ CallL1Shfit
    \/ CallL1ShfitFft
    \/ CallSymImag

SpecMotion == MotionInit /\ [][MotionNext]_vars

(***************************************************************************)
(* Properties of the motion functions (checked under SpecMotion).          *)
(***************************************************************************)
\* C12: simu_motion(fp, so) fails with a shape-mismatch error (numpy's
\* ValueError for operands that cannot be broadcast) whenever the length of
\* fp differs from the length of the last axis of so, signals and courses of
\* length 1 and signals with a leading dimension included; nothing is
\* returned from mismatched shapes.
C12_MismatchRaisesShapeError ==
    (pc = "simu_motion" /\ Len(args.fp) /= LastLen(args.so)) =>
        ret.raised = "ValueError"

\* a course of three samples and a signal of one: an array of three samples
\* is returned
C12_Witness ==
    /\ pc = "simu_motion" /\ Len(args.fp) = 3 /\ LastLen(args.so) = 1
    /\ ret.raised = "none" /\ LastLen(ret.som) = 3

\* a shift of y1 by c as the search makes it: a circular roll by c when c is
\* no longer than the signal, the signal itself otherwise
RolledOrWhole(y1, c) == IF Abs(c) <= Len(y1) THEN roll(y1, c) ELSE y1

\* a call of l1_shfit with signal_b = roll(signal_a, s) and s a candidate
RolledCall ==
    /\ pc = "l1_shfit" /\ args.rolled
    /\ \E c \in 1 .. Len(args.shifts) : args.shifts[c] = args.rolled_by

\* the candidates before list index c under which signal_a is signal_b
MatchesBefore(c) ==
    {m \in 1 .. c - 1 : RolledOrWhole(args.y1, args.shifts[m]) = args.y2}

\* C13 as stated: when signal_b is signal_a rolled by s and s is one of the
\* candidates, l1_shfit returns s.
C13_RolledSignalGivesItsShift ==
    RolledCall => (ret.raised = "none" /\ ret.disp = args.rolled_by)

\* C13, amended: when signal_b is signal_a rolled by s, s is one of the
\* candidates and |s| is at most the length of the signal, l1_shfit returns
\* the first candidate of the list under which signal_a becomes signal_b;
\* that is s when no candidate before s does so (as in the example: s = 7,
\* range(-10, 10), a signal of 20 samples that no other roll leaves alike).
C13_RolledSignalGivesFirstMatch ==
    (RolledCall /\ Abs(args.rolled_by) <= Len(args.y1)) =>
        /\ ret.raised = "none"
        /\ \E c \in 1 .. Len(args.shifts) :
              /\ ret.disp = args.shifts[c]
              /\ RolledOrWhole(args.y1, args.shifts[c]) = args.y2
              /\ MatchesBefore(c) = {}
        /\ \A c \in 1 .. Len(args.shifts) :
              (args.shifts[c] = args.rolled_by /\ MatchesBefore(c) = {})
                  => ret.disp = args.rolled_by

\* the example: a signal of 20 samples rolled by 7, searched over
\* range(-10, 10), gives 7
C13_Witness ==
    /\ RolledCall /\ args.rolled_by = 7 /\ args.y1 = SpikeSignal
    /\ args.shifts = Range(-10, 10) /\ ret.disp = 7

\* a course that never moves
IsZeroCourse(fp) == \A j \in 1 .. Len(fp) : fp[j] = 0

\* C14: for an all-zero course of the length of the signal, simu_motion
\* returns the signal unchanged at every index, for every real signal and
\* every length, even or odd.
C14_ZeroCourseIsIdentity ==
    (pc = "simu_motion" /\ args.return_abs /\ IsZeroCourse(args.fp)
        /\ Len(args.fp) = LastLen(args.so)) =>
        (ret.raised = "none" /\ ret.som = args.so)

\* a signal of three samples and the zero course: the samples come back
\* rolled by one
C14_Witness ==
    /\ pc = "simu_motion" /\ args.return_abs /\ args.fp = <<0, 0, 0>>
    /\ args.so = Array1(<<2, 0, 0>>) /\ ret.raised = "none"
    /\ ret.som = Array1(<<0, 2, 0>>)

\* a call of one of the two searches has returned a shift the distances of
\* which are known
SearchReturned ==
    /\ pc \in {"l1_shfit", "l1_shfit_fft"}
    /\ ret.raised = "none" /\ ret.l1 /= <<>>

\* candidate c is at a lesser computed distance than candidate m
Nearer(c, m) ==
    IF pc = "l1_shfit" THEN ret.l1[c] < ret.l1[m] ELSE Below(ret.l1[c], ret.l1[m])

\* C19: l1_shfit and l1_shfit_fft return the candidate at the lowest list
\* index among the candidates of least distance, whatever the values of the
\* candidates and their order in the list.
C19_FirstMinimumByListIndex ==
    SearchReturned =>
        \E c \in 1 .. Len(args.shifts) :
            /\ ret.disp = args.shifts[c]
            /\ \A m \in 1 .. Len(args.shifts) : ~Nearer(m, c)
            /\ \A m \in 1 .. c - 1 : Nearer(c, m)

\* every candidate of a descending list is at the same distance: the first
\* of the list, the largest in value, is returned
C19_Witness ==
    /\ pc = "l1_shfit_fft" /\ SearchReturned
    /\ args.shifts = <<2, 1, 0, -1>> /\ ret.disp = 2
    /\ \A m \in 1 .. 4 : ret.l1[m] = ret.l1[1]

\* the band sums of trials i and i + 1 of the scanned transform have
\* opposite signs
OppositeSigns(i) ==
    \/ BandSumSign(args.Fi, i, args.up) = 1 /\ BandSumSign(args.Fi, i + 1, args.up) = -1
    \/ BandSumSign(args.Fi, i, args.up) = -1 /\ BandSumSign(args.Fi, i + 1, args.up) = 1

\* C20: sym_imag scans the trial shifts in ascending order and returns the
\* phase-shifted transform at the first trial index i where the band sums of
\* trials i and i + 1 have opposite signs, choosing the one of the two trials
\* with the smaller absolute sum; if the scan ends without such a crossing it
\* returns the input transform unmodified and raises no error.
C20_FirstSignChangeOrInput ==
    (pc = "sym_imag" /\ args.Fi.len = BandLength) =>
        /\ ret.raised = "none"
        /\ \/ /\ \A i \in TrialLo .. TrialHi - 1 : ~OppositeSigns(i)
              /\ ret.F = args.Fi
           \/ \E i \in TrialLo .. TrialHi - 1 :
                 /\ OppositeSigns(i)
                 /\ \A h \in TrialLo .. i - 1 : ~OppositeSigns(h)
                 /\ \E t \in {i, i + 1} :
                       /\ ret.F = Shifted(args.Fi, t)
                       /\ BandSumSize(args.Fi, t) <= BandSumSize(args.Fi, i)
                       /\ BandSumSize(args.Fi, t) <= BandSumSize(args.Fi, i + 1)

\* a transform whose band sum changes sign many times over the scan: the
\* first change is returned, at the later of its two trials
C20_Witness ==
    /\ pc = "sym_imag" /\ args.Fi.len = BandLength /\ ret.raised = "none"
    /\ ret.F /= args.Fi
    /\ OppositeSigns(ret.F.trial - 1)
    /\ \E i \in ret.F.trial + 1 .. TrialHi - 1 : OppositeSigns(i)

(***************************************************************************)
(* What the metric calls write.  A tensor lives at an address of the store; *)
(* env binds the names of a call to addresses (0: not bound).  prediction   *)
(* and target arrive bound to the caller's tensors, at addresses 1 and 2.  *)
(***************************************************************************)
MemAtCall(prediction, target) ==
    [env   |-> [prediction |-> 1, target |-> 2, prediction_mask |-> 0, target_mask |-> 0],
     store |-> <<prediction, target>>]

ValueOf(mem, name) == mem.store[mem.env[name]]

\* name = <a new tensor>: the name is bound to a fresh address
bind(mem, name, value) ==
    [env   |-> [mem.env EXCEPT ![name] = Len(mem.store) + 1],
     store |-> Append(mem.store, value)]

\* mutant of gt: the comparison is written into the tensor compared
gt_inplace(mem, name, cut2) ==
    [mem EXCEPT !.store[mem.env[name]] = Threshold(ValueOf(mem, name), cut2)]

\* name = name > self.cut: the comparison makes a new tensor
gt(mem, name, cut2) == bind(mem, name, Threshold(ValueOf(mem, name), cut2))

\* dst = src.clone()
clone(mem, dst, src) == bind(mem, dst, ValueOf(mem, src))

\* name[prediction * target] = 0: written into the tensor name is bound to
setitem_overlap(mem, name) ==
    [mem EXCEPT !.store[mem.env[name]] =
        ClearOverlap(ValueOf(mem, name), ValueOf(mem, "prediction"), ValueOf(mem, "target"))]

\* the statements of amount_of_far_points that bind or write a tensor; the
\* same statements open average_hausdorff_distance
mem_far_points(obj, prediction, target) ==
    LET m1 == gt(MemAtCall(prediction, target), "prediction", obj.cut)
        m2 == gt(m1, "target", obj.cut)
        m3 == clone(m2, "prediction_mask", "prediction")
        m4 == setitem_overlap(m3, "prediction_mask")
    IN  bind(m4, "target_mask", get_border(ValueOf(m4, "target"), DefaultCut2))

\* the statements of average_hausdorff_distance that bind or write a tensor
mem_hausdorff(obj, prediction, target) ==
    LET m5 == mem_far_points(obj, prediction, target)
        m6 == bind(m5, "prediction_mask", get_border(ValueOf(m5, "prediction"), DefaultCut2))
        m7 == clone(m6, "target_mask", "target")
    IN  setitem_overlap(m7, "target_mask")

\* the object and the caller's two tensors once a call has ended in mem; no
\* statement of the two methods assigns an attribute of self
AfterCall(obj, mem) ==
    [self |-> obj, prediction |-> mem.store[1], target |-> mem.store[2]]

\* for p, t in zip(prediction, target): the calls of a batch wrapper see the
\* elements of the batches; what the batches hold after the loop
AfterBatch(obj, prediction, target, hausdorff) ==
    LET n == Min(Len(prediction), Len(target))
        after(j) == AfterCall(obj, IF hausdorff
                                   THEN mem_hausdorff(obj, prediction[j], target[j])
                                   ELSE mem_far_points(obj, prediction[j], target[j]))
    IN  [self       |-> obj,
         prediction |-> [j \in 1 .. Len(prediction) |->
                            IF j <= n THEN after(j).prediction ELSE prediction[j]],
         target     |-> [j \in 1 .. Len(target) |->
                            IF j <= n THEN after(j).target ELSE target[j]]]

\* batch_average_hausdorff_distance: res = 0.; res += ... over the pairs
RECURSIVE batch_average_hausdorff_distance(_, _, _)
batch_average_hausdorff_distance(obj, prediction, target) ==
    LET n == Min(Len(prediction), Len(target))
    IN  IF n = 0 THEN Zero
        ELSE Add(batch_average_hausdorff_distance(obj, SubSeq(prediction, 1, n - 1),
                                                  SubSeq(target, 1, n - 1)),
                 average_hausdorff_distance(obj, prediction[n], target[n]))

\* batch_amount_of_far_points
RECURSIVE batch_amount_of_far_points(_, _, _)
batch_amount_of_far_points(obj, prediction, target) ==
    LET n == Min(Len(prediction), Len(target))
    IN  IF n = 0 THEN 0
        ELSE batch_amount_of_far_points(obj, SubSeq(prediction, 1, n - 1),
                                        SubSeq(target, 1, n - 1))
             + amount_of_far_points(obj, prediction[n], target[n])

(***************************************************************************)
(* A DistanceMetric and a caller's batches over a sequence of calls.       *)
(***************************************************************************)
\* most calls made on one instance
MaxCalls == 2

\* a volume of LineShape from its four intensities
LineVolume(q) == [v \in Grid(LineShape) |-> q[v[1] + 1]]

\* volumes of intensities 0, 1, 2 (the cut 0.5 is between 0 and 1)
FrameVolumes ==
    {LineVolume(q) : q \in {<<0, 0, 0, 0>>, <<2, 0, 0, 0>>, <<1, 2, 0, 0>>,
                            <<0, 0, 2, 1>>, <<2, 2, 2, 2>>}}

\* the caller's batches: one pair of volumes, or two
FrameBatches ==
    {[prediction |-> <<p>>, target |-> <<t>>] : p \in FrameVolumes, t \in FrameVolumes}
    \cup
    {[prediction |-> <<p, LineVolume(<<0, 2, 1, 0>>)>>,
      target |-> <<t, LineVolume(<<0, 0, 1, 2>>)>>] : p \in FrameVolumes, t \in FrameVolumes}

FrameInit ==
    /\ pc = "start"
    /\ args = NoValue
    /\ self = NoValue
    /\ ret = NoValue

\* metric = DistanceMetric(cut, radius), next to the batches the caller built
FrameConstruct ==
    /\ pc = "start"
    /\ \E cut2 \in Cuts2, radius \in 1 .. MaxRadius, b \in FrameBatches :
          /\ self' = DistanceMetric(cut2, radius)
          /\ args' = [prediction |-> b.prediction, target |-> b.target,
                      built |-> [prediction |-> b.prediction, target |-> b.target,
                                 self |-> DistanceMetric(cut2, radius)]]
    /\ ret' = [calls |-> 0, value |-> NoValue]
    /\ pc' = "constructed"

\* a call has ended: the object and the batches are what it left of them
Ended(after, value, name) ==
    /\ self' = after.self
    /\ args' = [args EXCEPT !.prediction = after.prediction, !.target = after.target]
    /\ ret' = [calls |-> ret.calls + 1, value |-> value]
    /\ pc' = name

\* metric.average_hausdorff_distance(prediction[0], target[0])
FrameHausdorff ==
    /\ pc /= "start" /\ ret.calls < MaxCalls
    /\ LET p == args.prediction[1]
           t == args.target[1]
           after == AfterCall(self, mem_hausdorff(self, p, t))
       IN  Ended([self       |-> after.self,
                  prediction |-> [args.prediction EXCEPT ![1] = after.prediction],
                  target     |-> [args.target EXCEPT ![1] = after.target]],
                 average_hausdorff_distance(self, p, t), "average_hausdorff_distance")

\* metric.amount_of_far_points(prediction[0], target[0])
FrameFarPoints ==
    /\ pc /= "start" /\ ret.calls < MaxCalls
    /\ LET p == args.prediction[1]
           t == args.target[1]
           after == AfterCall(self, mem_far_points(self, p, t))
       IN  Ended([self       |-> after.self,
                  prediction |-> [args.prediction EXCEPT ![1] = after.prediction],
                  target     |-> [args.target EXCEPT ![1] = after.target]],
                 amount_of_far_points(self, p, t), "amount_of_far_points")

\* metric.batch_average_hausdorff_distance(prediction, target)
FrameBatchHausdorff ==
    /\ pc /= "start" /\ ret.calls < MaxCalls
    /\ Ended(AfterBatch(self, args.prediction, args.target, TRUE),
             batch_average_hausdorff_distance(self, args.prediction, args.target),
             "batch_average_hausdorff_distance")

\* metric.batch_amount_of_far_points(prediction, target)
FrameBatchFarPoints ==
    /\ pc /= "start" /\ ret.calls < MaxCalls
    /\ Ended(AfterBatch(self, args.prediction, args.target, FALSE),
             batch_amount_of_far_points(self, args.prediction, args.target),
             "batch_amount_of_far_points")

FrameNext ==
    \/ FrameConstruct
    \/ FrameHausdorff
    \/ FrameFarPoints
    \/ FrameBatchHausdorff
    \/ FrameBatchFarPoints

SpecFrame == FrameInit /\ [][FrameNext]_vars

\* C15: after construction, any sequence of calls of
\* average_hausdorff_distance, amount_of_far_points and their batch wrappers
\* leaves cut, radius, d_max, distance_map, distances and distance_kernels
\* as construction made them, and the caller's prediction and target arrays
\* as the caller built them.
C15_CallsLeaveObjectAndArraysUnchanged ==
    pc /= "start" =>
        /\ self = args.built.self
        /\ get_distance_map(self.radius) = get_distance_map(args.built.self.radius)
        /\ get_distance_kernels(self) = get_distance_kernels(args.built.self)
        /\ args.prediction = args.built.prediction
        /\ args.target = args.built.target

\* two calls have been made, the second a batch call, on volumes that hold
\* intensities above 1 and overlap in both elements of the batch
C15_Witness ==
    /\ pc = "batch_average_hausdorff_distance" /\ ret.calls = 2
    /\ Len(args.prediction) = 2
    /\ \E v \in Grid(LineShape) : args.prediction[1][v] = 2 /\ args.target[1][v] = 2
    /\ ret.value /= Zero

(***************************************************************************)
(* The kernel bank of a new DistanceMetric (checked under SpecMetric).     *)
(***************************************************************************)
\* min(radius, Euclidean norm of the offset), as a square
ClippedNormSq(radius, o) == Min(radius * radius, NormSq(o))

\* the distinct clipped distances of the neighbourhood of a radius
ClippedValues(radius) == {ClippedNormSq(radius, o) : o \in Offsets(radius)}

\* the place of the value w among the values of the set W, ascending from 1
RankIn(W, w) == Cardinality({u \in W : u < w}) + 1

\* C16: for every radius >= 1 the kernel bank built at construction
\* partitions the (2 radius + 1)^3 neighbourhood: every offset is 1 in
\* exactly one kernel and 0 in the others, kernel i is 1 exactly at the
\* offsets whose clipped distance min(radius, norm) is the i-th smallest
\* distinct value, and that value is distances[i].
C16_KernelsPartitionNeighbourhood ==
    (pc = "constructed" /\ self.radius >= 1) =>
        LET bank   == get_distance_kernels(self)
            r      == self.radius
            values == ClippedValues(r)
        IN  /\ Len(bank) = Cardinality(values)
            /\ Len(self.distances) = Len(bank)
            /\ \A o \in Offsets(r) :
                  LET i == RankIn(values, ClippedNormSq(r, o))
                  IN  /\ bank[i][o] = 1
                      /\ self.distances[i] = ClippedNormSq(r, o)
                      /\ \A idx \in 1 .. Len(bank) : idx /= i => bank[idx][o] = 0

\* radius 2: five kernels, the corner of the cube (at distance sqrt(12),
\* clipped to 2) in the last one together with the offset (2, 0, 0)
C16_Witness ==
    /\ pc = "constructed" /\ self.radius = 2
    /\ Len(get_distance_kernels(self)) = 5
    /\ get_distance_kernels(self)[5][<<2, 2, 2>>] = 1
    /\ get_distance_kernels(self)[5][<<2, 0, 0>>] = 1

(***************************************************************************)
(* More properties of corrupt_data (checked under SpecCourse).             *)
(***************************************************************************)
\* the value the ramp of a step ends on, at index x0 + sigma of the course
\* as the method branch leaves it
PlateauValue == ret.y[args.x0 + args.sigma + 1]

\* C17: corrupt_data with method='step' produces a course whose plateau is
\* +amplitude when x0 lies in the first half of the range (x0 < resolution/2)
\* and -amplitude when it lies in the second half, for every resolution.
C17_StepSignFollowsHalfOfRange ==
    (CourseReturned /\ args.method = "step" /\ args.center = "none") =>
        PlateauValue = IF 2 * args.x0 < args.resolution
                       THEN Rat(args.amplitude, 1) ELSE Rat(-args.amplitude, 1)

\* the parameters ask for no segment of negative length
SegmentsFit ==
    ~NegativeLength(args.x0, args.sigma, args.method, args.resolution)

\* the ramps and plateaus of '2step' before the course is fitted to resolution
TwoStepSegments ==
    Const(args.x0 - args.sigma[1], 0)
      \o linspace(0, args.amplitude[1], 2 * args.sigma[1] + 1)
      \o Const(args.sigma[2] - 1, args.amplitude[1])
      \o linspace(args.amplitude[1], args.amplitude[2], 2 * args.sigma[1] + 1)
      \o Const(args.sigma[3] - 1, args.amplitude[2])
      \o linspace(args.amplitude[2], 0, 2 * args.sigma[1] + 1)

\* the first resolution samples of the '2step' segments, shifted by the
\* sample at resolution // 2 when the call centres the course
TwoStepCut ==
    LET cut == SubSeq(TwoStepSegments, 1, args.resolution)
    IN  IF args.center = "zero"
        THEN [j \in 1 .. Len(cut) |-> Sub(cut[j], cut[(args.resolution \div 2) + 1])]
        ELSE cut

\* the call is one a course comes back from: its midpoint exists if it is to
\* be centred, and mvt_axes names rows of the six-row table fp
MidpointAndAxesExist ==
    /\ args.center = "zero" => args.resolution >= 1
    /\ \A j \in 1 .. Len(args.mvt_axes) : args.mvt_axes[j] \in -6 .. 5

\* C18 as stated: for every recognized method and parameters whose segment
\* lengths are all non-negative, corrupt_data returns a course of exactly
\* resolution samples; a '2step' course longer than resolution is cut to its
\* first resolution samples and no error is raised.
C18_CourseHasResolutionSamples ==
    (pc = "corrupt_data" /\ args.method \in Methods /\ SegmentsFit) =>
        /\ ret.raised = "none"
        /\ Len(ret.y) = args.resolution
        /\ (args.method = "2step" /\ Len(TwoStepSegments) > args.resolution)
              => ret.y = TwoStepCut

\* C18, amended: for every recognized method and parameters whose segment
\* lengths are all non-negative, with resolution >= 1 when center is 'zero'
\* and every entry of mvt_axes in -6 .. 5, corrupt_data returns a course of
\* exactly resolution samples, a '2step' course longer than resolution being
\* cut to its first resolution samples without an error; with center 'zero'
\* and resolution 0, or an entry of mvt_axes outside -6 .. 5, the call ends
\* in an IndexError.
C18_CourseHasResolutionSamplesIfIndexed ==
    (pc = "corrupt_data" /\ args.method \in Methods /\ SegmentsFit) =>
        /\ MidpointAndAxesExist =>
              /\ ret.raised = "none"
              /\ Len(ret.y) = args.resolution
              /\ (args.method = "2step" /\ Len(TwoStepSegments) > args.resolution)
                    => ret.y = TwoStepCut
        /\ ~MidpointAndAxesExist => ret.raised = "IndexError"

\* a '2step' call whose segments hold more samples than resolution: the
\* course returned is their first resolution samples
C18_Witness ==
    /\ pc = "corrupt_data" /\ args.method = "2step" /\ SegmentsFit
    /\ MidpointAndAxesExist
    /\ Len(TwoStepSegments) > args.resolution + 1 /\ args.resolution >= 2
    /\ ret.raised = "none" /\ Len(ret.y) = args.resolution

(***************************************************************************)
(* The border of the target in the metric calls (checked under SpecMetric). *)
(***************************************************************************)
\* a call of average_hausdorff_distance or amount_of_far_points
MetricCall == pc \in {"average_hausdorff_distance", "amount_of_far_points"}

\* the volume that is 1 at the voxels outside the thresholded target
OutsideTarget == [v \in DOMAIN ArgT |-> 1 - ArgT[v]]

\* the border of the thresholded target, as the two methods take it
TargetBorder == get_border(ArgT, DefaultCut2)

\* C21: for every thresholded target mask and every voxel s that is not in
\* the target, the nearest distance from s to _get_border(target) equals the
\* nearest distance from s to the whole target (both clipped at radius), so
\* taking the border of the target in average_hausdorff_distance and
\* amount_of_far_points changes no per-voxel distance.
C21_BorderKeepsNearestDistances ==
    MetricCall =>
        LET s       == SortVoxels(Support(OutsideTarget))
            to_edge == min_dim1(pairwise_distances(self, OutsideTarget, TargetBorder, FALSE))
            to_all  == min_dim1(pairwise_distances(self, OutsideTarget, ArgT, FALSE))
        IN  /\ to_edge = to_all
            /\ \A r \in 1 .. Len(s) :
                  /\ ClippedNearestSq(self.radius, s[r], Support(TargetBorder))
                        = ClippedNearestSq(self.radius, s[r], Support(ArgT))
                  /\ to_edge[r] = ClippedNearestSq(self.radius, s[r], Support(ArgT))

\* a target with a voxel that is not on its border (the centre of the cube)
\* and a voxel outside it nearer than radius to the target, which is also a
\* prediction voxel whose distance the call takes
C21_Witness ==
    /\ MetricCall /\ self.radius >= 2
    /\ Support(ArgT) \ Support(TargetBorder) /= {}
    /\ \E v \in PredictionOnly :
          ClippedNearestSq(self.radius, v, Support(ArgT)) < self.radius * self.radius

====
